---- MODULE Spec2Model ----
(***************************************************************************)
(* Copilot Compass: the metrics pipeline of samueltauil/copilot-compass.   *)
(*                                                                         *)
(*   schemas.ts          the Zod schemas and validateMetricsResponse       *)
(*   github-client.ts    GitHubApiClient and its process-wide cache        *)
(*   report-generator.ts ReportGenerator.generateReport and its builders   *)
(*                                                                         *)
(* JSON values are tagged records, JavaScript objects are functions from   *)
(* field names to JSON values, and an absent field reads as Undefined.     *)
(***************************************************************************)
EXTENDS Integers, Sequences, FiniteSets, TLC

VARIABLES
    cache,      \* the Map shared by every client: key -> data, timestamp, expiresAt
    now,        \* Date.now(), in ticks
    calls,      \* the generateReport calls made so far, in the order they began
    cleared,    \* history: the keys clearCache removed, if no call began or
                \* resumed since
    input,      \* the untrusted value handed to the validator on its own
    result      \* what validateMetricsResponse returned for it

vars == <<cache, now, calls, cleared, input, result>>

-----------------------------------------------------------------------------
(* Bounds of the model.                                                    *)

\* The longest raw array handed to the validator.
MaxDays == 2

\* The generateReport calls of one run.
MaxCalls == 2

\* The last tick of the clock.
MaxTime == 2

-----------------------------------------------------------------------------
(* JSON values.                                                            *)

Undefined == [t |-> "undefined"]
JNull == [t |-> "null"]
JNum(n) == [t |-> "num", n |-> n]
JStr(s) == [t |-> "str", s |-> s]
JBool(b) == [t |-> "bool", b |-> b]
JArr(a) == [t |-> "arr", a |-> a]
JObj(f) == [t |-> "obj", f |-> f]

\* o.k of JavaScript: the field's value, or undefined when o has no such field.
Get(o, k) == IF o.t = "obj" /\ k \in DOMAIN o.f THEN o.f[k] ELSE Undefined

\* The object o with field k set to v.
With(o, k, v) == JObj([x \in DOMAIN o.f \cup {k} |-> IF x = k THEN v ELSE o.f[x]])

\* The object o without field k.
Without(o, k) == JObj([x \in DOMAIN o.f \ {k} |-> o.f[x]])

None == [some |-> FALSE]
Some(x) == [some |-> TRUE, v |-> x]

RECURSIVE Flatten(_)
Flatten(ss) == IF ss = <<>> THEN <<>> ELSE Head(ss) \o Flatten(Tail(ss))

-----------------------------------------------------------------------------
(* Zod, as far as the schemas use it.                                      *)

ZString == [k |-> "string"]
ZNumber == [k |-> "number"]
ZBoolean == [k |-> "boolean"]
ZArray(el) == [k |-> "array", el |-> el]
\* z.object(shape): shape is the sequence of <<key, schema>> in source order.
ZObject(shape) == [k |-> "object", shape |-> shape, unknownKeys |-> "strip"]
ZPassthroughStrip(s) == s
ZPassthrough(s) == [s EXCEPT !.unknownKeys = "passthrough"]
ZDefault(inner, d) == [k |-> "default", inner |-> inner, def |-> d]
ZOptional(inner) == [k |-> "optional", inner |-> inner]
ZNullish(inner) == [k |-> "nullish", inner |-> inner]

\* Zod's name for the type of a value (getParsedType).
ZParsedType(v) ==
    CASE v.t = "str" -> "string"
      [] v.t = "num" -> "number"
      [] v.t = "bool" -> "boolean"
      [] v.t = "arr" -> "array"
      [] v.t = "obj" -> "object"
      [] OTHER -> v.t

\* The invalid_type issue Zod raises at path for a value of the wrong type.
ZIssue(path, expected, v) ==
    [path |-> path,
     message |-> IF v = Undefined
                 THEN "Required"
                 ELSE "Expected " \o expected \o ", received " \o ZParsedType(v)]

ZOk(v) == [issues |-> <<>>, v |-> v]

\* schema._parse(value) at path: the issues raised and the value produced.
\* ZParseAll runs a sequence of parses <<schema, value, path>>, each once.
RECURSIVE ZParse(_, _, _), ZParseAll(_)
ZParseAll(jobs) ==
    IF jobs = <<>> THEN <<>>
    ELSE <<ZParse(jobs[1][1], jobs[1][2], jobs[1][3])>> \o ZParseAll(Tail(jobs))

ZParse(s, v, path) ==
    CASE s.k \in {"string", "number", "boolean"} ->
           IF ZParsedType(v) = s.k
           THEN ZOk(v)
           ELSE [issues |-> <<ZIssue(path, s.k, v)>>, v |-> Undefined]
      [] s.k \in {"default", "optional", "nullish"} ->
           IF v = Undefined THEN ZOk(IF s.k = "default" THEN s.def ELSE Undefined)
           ELSE IF v = JNull /\ s.k = "nullish" THEN ZOk(JNull)
           ELSE ZParse(s.inner, v, path)
      [] s.k = "array" ->
           IF v.t # "arr"
           THEN [issues |-> <<ZIssue(path, "array", v)>>, v |-> Undefined]
           ELSE LET rs == ZParseAll([i \in 1..Len(v.a) |->
                                      <<s.el, v.a[i], Append(path, ToString(i - 1))>>])
                IN  [issues |-> Flatten([i \in 1..Len(rs) |-> rs[i].issues]),
                     v |-> JArr([i \in 1..Len(rs) |-> rs[i].v])]
      [] s.k = "object" ->
           IF v.t # "obj"
           THEN [issues |-> <<ZIssue(path, "object", v)>>, v |-> Undefined]
           ELSE LET n == Len(s.shape)
                    keys == {s.shape[i][1] : i \in 1..n}
                    rs == ZParseAll([i \in 1..n |->
                                      <<s.shape[i][2], Get(v, s.shape[i][1]),
                                        Append(path, s.shape[i][1])>>])
                    at(key) == CHOOSE i \in 1..n : s.shape[i][1] = key
                    kept == {key \in keys :
                               key \in DOMAIN v.f \/ rs[at(key)].v # Undefined}
                    extra == IF s.unknownKeys = "passthrough"
                             THEN DOMAIN v.f \ keys
                             ELSE {}
                IN  [issues |-> Flatten([i \in 1..n |-> rs[i].issues]),
                     v |-> JObj([key \in kept \cup extra |->
                                   IF key \in keys THEN rs[at(key)].v ELSE v.f[key]])]

\* What safeParse makes of a parse r: the issues make up error.errors.
SafeParseReturnType(r) ==
    IF r.issues = <<>>
    THEN [success |-> TRUE, data |-> r.v]
    ELSE [success |-> FALSE, error |-> [errors |-> r.issues]]

\* schema.safeParse(data): never throws.
safeParse(schema, data) == SafeParseReturnType(ZParse(schema, data, <<>>))

-----------------------------------------------------------------------------
(* The schemas of schemas.ts.                                              *)

LanguageMetricsSchema ==
    ZPassthrough(ZObject(<<
        <<"name", ZString>>,
        <<"total_engaged_users", ZDefault(ZNumber, JNum(0))>>,
        <<"total_code_suggestions", ZDefault(ZNumber, JNum(0))>>,
        <<"total_code_acceptances", ZDefault(ZNumber, JNum(0))>>,
        <<"total_code_lines_suggested", ZDefault(ZNumber, JNum(0))>>,
        <<"total_code_lines_accepted", ZDefault(ZNumber, JNum(0))>> >>))

ModelMetricsSchema ==
    ZPassthrough(ZObject(<<
        <<"name", ZString>>,
        <<"is_custom_model", ZDefault(ZBoolean, JBool(FALSE))>>,
        <<"custom_model_training_date", ZNullish(ZString)>>,
        <<"total_engaged_users", ZDefault(ZNumber, JNum(0))>>,
        <<"languages", ZOptional(ZArray(LanguageMetricsSchema))>>,
        <<"total_code_suggestions", ZOptional(ZNumber)>>,
        <<"total_code_acceptances", ZOptional(ZNumber)>>,
        <<"total_code_lines_suggested", ZOptional(ZNumber)>>,
        <<"total_code_lines_accepted", ZOptional(ZNumber)>> >>))

EditorMetricsSchema ==
    ZPassthrough(ZObject(<<
        <<"name", ZString>>,
        <<"total_engaged_users", ZDefault(ZNumber, JNum(0))>>,
        <<"models", ZOptional(ZArray(ModelMetricsSchema))>> >>))

IdeCodeCompletionsSchema ==
    ZPassthrough(ZObject(<<
        <<"total_engaged_users", ZDefault(ZNumber, JNum(0))>>,
        <<"languages", ZOptional(ZArray(LanguageMetricsSchema))>>,
        <<"editors", ZOptional(ZArray(EditorMetricsSchema))>>,
        <<"models", ZOptional(ZArray(ModelMetricsSchema))>> >>))

ChatModelMetricsSchema ==
    ZPassthrough(ZObject(<<
        <<"name", ZString>>,
        <<"is_custom_model", ZDefault(ZBoolean, JBool(FALSE))>>,
        <<"custom_model_training_date", ZNullish(ZString)>>,
        <<"total_engaged_users", ZDefault(ZNumber, JNum(0))>>,
        <<"total_chats", ZDefault(ZNumber, JNum(0))>>,
        <<"total_chat_insertion_events", ZDefault(ZNumber, JNum(0))>>,
        <<"total_chat_copy_events", ZDefault(ZNumber, JNum(0))>> >>))

EditorChatMetricsSchema ==
    ZPassthrough(ZObject(<<
        <<"name", ZString>>,
        <<"total_engaged_users", ZDefault(ZNumber, JNum(0))>>,
        <<"models", ZOptional(ZArray(ChatModelMetricsSchema))>> >>))

IdeChatMetricsSchema ==
    ZPassthrough(ZObject(<<
        <<"total_engaged_users", ZDefault(ZNumber, JNum(0))>>,
        <<"editors", ZOptional(ZArray(EditorChatMetricsSchema))>> >>))

DotcomChatMetricsSchema ==
    ZPassthrough(ZObject(<<
        <<"total_engaged_users", ZDefault(ZNumber, JNum(0))>>,
        <<"models", ZOptional(ZArray(ChatModelMetricsSchema))>> >>))

PullRequestModelMetricsSchema ==
    ZPassthrough(ZObject(<<
        <<"name", ZString>>,
        <<"is_custom_model", ZDefault(ZBoolean, JBool(FALSE))>>,
        <<"custom_model_training_date", ZNullish(ZString)>>,
        <<"total_pr_summaries_created", ZDefault(ZNumber, JNum(0))>>,
        <<"total_engaged_users", ZDefault(ZNumber, JNum(0))>> >>))

RepositoryMetricsSchema ==
    ZPassthrough(ZObject(<<
        <<"name", ZString>>,
        <<"total_engaged_users", ZDefault(ZNumber, JNum(0))>>,
        <<"models", ZOptional(ZArray(PullRequestModelMetricsSchema))>> >>))

PullRequestMetricsSchema ==
    ZPassthrough(ZObject(<<
        <<"total_engaged_users", ZDefault(ZNumber, JNum(0))>>,
        <<"repositories", ZOptional(ZArray(RepositoryMetricsSchema))>> >>))

CopilotUsageMetricsSchemaDateOptional ==
    ZPassthrough(ZObject(<<
        <<"date", ZOptional(ZString)>>,
        <<"total_active_users", ZDefault(ZNumber, JNum(0))>>,
        <<"total_engaged_users", ZDefault(ZNumber, JNum(0))>>,
        <<"copilot_ide_code_completions", ZOptional(IdeCodeCompletionsSchema)>>,
        <<"copilot_ide_chat", ZOptional(IdeChatMetricsSchema)>>,
        <<"copilot_dotcom_chat", ZOptional(DotcomChatMetricsSchema)>>,
        <<"copilot_dotcom_pull_requests", ZOptional(PullRequestMetricsSchema)>> >>))

CopilotUsageMetricsSchema ==
    ZPassthrough(ZObject(<<
        <<"date", ZString>>,
        <<"total_active_users", ZDefault(ZNumber, JNum(0))>>,
        <<"total_engaged_users", ZDefault(ZNumber, JNum(0))>>,
        <<"copilot_ide_code_completions", ZOptional(IdeCodeCompletionsSchema)>>,
        <<"copilot_ide_chat", ZOptional(IdeChatMetricsSchema)>>,
        <<"copilot_dotcom_chat", ZOptional(DotcomChatMetricsSchema)>>,
        <<"copilot_dotcom_pull_requests", ZOptional(PullRequestMetricsSchema)>> >>))

CopilotMetricsApiResponseSchema == ZArray(CopilotUsageMetricsSchema)

-----------------------------------------------------------------------------
(* The validation functions of schemas.ts.                                 *)

EmptyWarning == "API returned empty metrics array - date range may have no data"

ZeroDaysWarning(z) == ToString(z) \o " day(s) have zero active users"

IsZeroDay(d) == Get(d, "total_active_users") = JNum(0)

\* if (result.data.length === 0) warnings.push(...)
EmptyArrayWarnings(days) == IF Len(days) = 0 THEN <<EmptyWarning>> ELSE <<>>

ZeroDayWarningsAllZero(days) ==
    LET zeroDays == SelectSeq(days, IsZeroDay)
    IN  IF Len(zeroDays) > 0 THEN <<ZeroDaysWarning(Len(zeroDays))>> ELSE <<>>

\* The zero-activity check: some days, but not all, have no active user.
ZeroDayWarnings(days) ==
    LET zeroDays == SelectSeq(days, IsZeroDay)
    IN  IF Len(zeroDays) > 0 /\ Len(zeroDays) < Len(days)
        THEN <<ZeroDaysWarning(Len(zeroDays))>>
        ELSE <<>>

\* warnings: warnings.length > 0 ? warnings : undefined
WarningsOrUndefined(warnings) == IF Len(warnings) > 0 THEN Some(warnings) ELSE None

\* The ValidationResult for the outcome `parsed` of safeParse on an array.
ValidationResult(parsed) ==
    IF parsed.success
    THEN [success |-> TRUE,
          data |-> parsed.data,
          warnings |-> WarningsOrUndefined(EmptyArrayWarnings(parsed.data.a)
                                           \o ZeroDayWarnings(parsed.data.a))]
    ELSE [success |-> FALSE, errors |-> parsed.error]

validateMetricsResponse(data) ==
    ValidationResult(safeParse(CopilotMetricsApiResponseSchema, data))

\* The ValidationResult for the outcome `parsed` of safeParse on one day.
SingleDayResult(parsed) ==
    IF parsed.success
    THEN [success |-> TRUE, data |-> parsed.data]
    ELSE [success |-> FALSE, errors |-> parsed.error]

\* validateSingleDayMetrics handing back its argument instead of the parsed
\* record.
validateSingleDayMetricsUnparsed(data) ==
    IF safeParse(CopilotUsageMetricsSchema, data).success
    THEN [success |-> TRUE, data |-> data]
    ELSE [success |-> FALSE, errors |-> safeParse(CopilotUsageMetricsSchema, data).error]

validateSingleDayMetrics(data) ==
    SingleDayResult(safeParse(CopilotUsageMetricsSchema, data))

RECURSIVE Join(_, _)
Join(ss, sep) ==
    IF ss = <<>> THEN ""
    ELSE IF Len(ss) = 1 THEN ss[1]
    ELSE ss[1] \o sep \o Join(Tail(ss), sep)

formatValidationErrors(error) ==
    [i \in 1..Len(error.errors) |->
        Join(error.errors[i].path, ".") \o ": " \o error.errors[i].message]

-----------------------------------------------------------------------------
(* JavaScript values the pipeline throws, awaits and converts.             *)

\* new Error(message)
Error(message) == [isError |-> TRUE, name |-> "Error", message |-> message]

\* The TypeError the engine raises when a property of undefined is read.
TypeError(message) == [isError |-> TRUE, name |-> "TypeError", message |-> message]

\* A thrown value that is no instance of Error.
Thrown(v) == [isError |-> FALSE, value |-> v]

\* A settled promise.
Fulfilled(v) == [status |-> "fulfilled", value |-> v]
Rejected(e) == [status |-> "rejected", reason |-> e]

\* if (v): every value but undefined, null, 0, "" and false.
Truthy(v) == v \notin {Undefined, JNull, JNum(0), JStr(""), JBool(FALSE)}

\* String(v)
RECURSIVE JsString(_)
JsString(v) ==
    CASE v.t = "str" -> v.s
      [] v.t = "num" -> ToString(v.n)
      [] v.t = "bool" -> IF v.b THEN "true" ELSE "false"
      [] v.t = "arr" -> Join([i \in 1..Len(v.a) |->
                                IF v.a[i] \in {Undefined, JNull} THEN ""
                                ELSE JsString(v.a[i])], ",")
      [] v.t = "obj" -> "[object Object]"
      [] OTHER -> v.t

\* A Map: its entries in insertion order.
MapNew == <<>>
MapKeys(m) == [i \in 1..Len(m) |-> m[i].key]
MapHas(m, k) == \E i \in 1..Len(m) : m[i].key = k
MapGet(m, k) == m[CHOOSE i \in 1..Len(m) : m[i].key = k].value
MapSet(m, k, v) ==
    IF MapHas(m, k)
    THEN [i \in 1..Len(m) |-> IF m[i].key = k THEN [key |-> k, value |-> v] ELSE m[i]]
    ELSE Append(m, [key |-> k, value |-> v])
MapDelete(m, k) == SelectSeq(m, LAMBDA e : e.key # k)

-----------------------------------------------------------------------------
(* github-client.ts: GitHubApiClient and the cache its instances share.    *)

\* Cache TTL in ticks of the clock (CACHE_TTL_SECONDS, 300 s by default).
CACHE_TTL_MS == 1

\* VALIDATE_API_RESPONSES is not 'false' in the default deployment.
VALIDATE_RESPONSES == TRUE

\* The clients of the process: one built with a token, one built without
\* (constructor: this.token = token || process.env.GITHUB_TOKEN || "").
Clients == {"live", "demo"}
Token(client) == IF client = "live" THEN "ghp_token" ELSE ""

TokenRequired ==
    Error("GitHub token is required. Set GITHUB_TOKEN environment variable or pass token to constructor.")

\* validateToken(): the Error it throws, if any.
validateToken(token) == IF token = "" THEN Some(TokenRequired) ELSE None

getCacheKey(type, slug, dateRange) ==
    type \o ":" \o slug \o ":" \o dateRange.from \o ":" \o dateRange.to

getFromCacheAlwaysMiss(store, key, t) == [cache |-> store, data |-> JNull]

\* getFromCache(key) at time t: the data it returns (null on a miss) and the
\* store it leaves.
getFromCache(store, key, t) ==
    IF ~MapHas(store, key)
    THEN [cache |-> store, data |-> JNull]
    ELSE IF t > MapGet(store, key).expiresAt
         THEN [cache |-> MapDelete(store, key), data |-> JNull]
         ELSE [cache |-> store, data |-> MapGet(store, key).data]

\* setCache leaving an entry for the key in place.
setCacheKeepFirst(store, key, data, t) ==
    IF MapHas(store, key) THEN store
    ELSE Append(store, [key |-> key,
                        value |-> [data |-> data, timestamp |-> t,
                                   expiresAt |-> t + CACHE_TTL_MS]])

setCache(store, key, data, t) ==
    MapSet(store, key, [data |-> data, timestamp |-> t, expiresAt |-> t + CACHE_TTL_MS])

clearCacheExpiredOnly(store, t) ==
    SelectSeq(store, LAMBDA e : t <= e.value.expiresAt)

\* clearCache(), whatever the time t: cache.clear().
clearCache(store, t) == MapNew

getCacheStats(store) == [size |-> Len(store), keys |-> MapKeys(store)]

\* What the upstream does with a request that was sent: fetch() rejects, or
\* resolves with a response.
HttpError(status, text) == [kind |-> "response", ok |-> FALSE, status |-> status, text |-> text]
HttpOk(json) == [kind |-> "response", ok |-> TRUE, json |-> json]
FetchRejects(reason) == [kind |-> "reject", reason |-> reason]

\* request(): how its promise settles once fetch has settled with u.
requestSettles(u) ==
    IF u.kind = "reject" THEN Rejected(u.reason)
    ELSE IF ~u.ok
         THEN Rejected(Error("GitHub API error (" \o ToString(u.status) \o "): " \o u.text))
         ELSE Fulfilled(u.json)

\* The message of the Error validateResponse throws for the formatted errors.
ValidationFailed(errors, context) ==
    "GitHub API response validation failed for " \o context \o ": "
    \o Join(SubSeq(errors, 1, IF Len(errors) > 3 THEN 3 ELSE Len(errors)), "; ")
    \o (IF Len(errors) > 3
        THEN " (and " \o ToString(Len(errors) - 3) \o " more errors)"
        ELSE "")

\* validateResponse once validateMetricsResponse has returned r.
Validated(r, context) ==
    IF ~r.success
    THEN Rejected(Error(ValidationFailed(formatValidationErrors(r.errors), context)))
    ELSE Fulfilled(r.data)

\* validateResponse(data, context): the metrics it returns (Fulfilled) or the
\* Error it throws (Rejected).
validateResponse(data, context) ==
    IF ~VALIDATE_RESPONSES
    THEN Fulfilled(data)
    ELSE Validated(validateMetricsResponse(data), context)

\* A client method that joins the request in flight for its key instead of
\* issuing its own.
MetricsCallSingleFlight(method, type, path, slug, dateRange, store, token, t) ==
    LET cacheKey == getCacheKey(type, slug, dateRange)
        read == getFromCache(store, cacheKey, t)
        inFlight == \E i \in 1..Len(calls) :
                       /\ calls[i].cacheKey = cacheKey
                       /\ calls[i].requested
                       /\ ~calls[i].settled.some
        base == [method |-> method, args |-> <<slug, dateRange>>,
                 cacheKey |-> cacheKey, context |-> slug,
                 endpoint |-> path \o slug \o "/copilot/metrics",
                 cache |-> read.cache]
    IN  IF Truthy(read.data)
        THEN base @@ [hit |-> TRUE, requested |-> FALSE,
                      settled |-> Some(Fulfilled(read.data))]
        ELSE IF validateToken(token).some
             THEN base @@ [hit |-> FALSE, requested |-> FALSE,
                           settled |-> Some(Rejected(validateToken(token).v))]
             ELSE base @@ [hit |-> FALSE, requested |-> ~inFlight, settled |-> None]

\* The part of a client method that runs before its first await: the cache
\* read, then either the cached data, or request() up to validateToken and
\* fetch.
MetricsCall(method, type, path, slug, dateRange, store, token, t) ==
    LET cacheKey == getCacheKey(type, slug, dateRange)
        read == getFromCache(store, cacheKey, t)
        base == [method |-> method, args |-> <<slug, dateRange>>,
                 cacheKey |-> cacheKey, context |-> slug,
                 endpoint |-> path \o slug \o "/copilot/metrics",
                 cache |-> read.cache]
    IN  IF Truthy(read.data)
        THEN base @@ [hit |-> TRUE, requested |-> FALSE,
                      settled |-> Some(Fulfilled(read.data))]
        ELSE IF validateToken(token).some
             THEN base @@ [hit |-> FALSE, requested |-> FALSE,
                           settled |-> Some(Rejected(validateToken(token).v))]
             ELSE base @@ [hit |-> FALSE, requested |-> TRUE, settled |-> None]

getEnterpriseMetrics(enterpriseSlug, dateRange, store, token, t) ==
    MetricsCall("getEnterpriseMetrics", "enterprise", "/enterprises/",
                enterpriseSlug, dateRange, store, token, t)

getOrganizationMetrics(orgName, dateRange, store, token, t) ==
    MetricsCall("getOrganizationMetrics", "org", "/orgs/",
                orgName, dateRange, store, token, t)

\* The end of a client method, validateResponse having returned or thrown:
\* setCache and return, or the rejection.
StoreAndReturn(cacheKey, store, metrics, t) ==
    IF metrics.status = "rejected"
    THEN [cache |-> store, settled |-> metrics]
    ELSE [cache |-> setCache(store, cacheKey, metrics.value, t), settled |-> metrics]

\* A client method that stores the response before validating it.
MetricsResumeStoreFirst(cacheKey, context, store, r, t) ==
    IF r.status = "rejected"
    THEN [cache |-> store, settled |-> r]
    ELSE [cache |-> setCache(store, cacheKey, r.value, t),
          settled |-> validateResponse(r.value, context)]

\* The rest of a client method, once request() has settled with r at time t:
\* validateResponse, setCache, return.
MetricsResume(cacheKey, context, store, r, t) ==
    IF r.status = "rejected"
    THEN [cache |-> store, settled |-> r]
    ELSE StoreAndReturn(cacheKey, store, validateResponse(r.value, context), t)

-----------------------------------------------------------------------------
(* report-generator.ts: arithmetic.                                        *)
(* Counts are integers. A value the code rounds to two decimals            *)
(* (acceptanceRate, avgDailyActiveUsers) is held in hundredths.            *)

\* floor(x * y / z) for naturals, without forming x * y.
MulDiv(x, y, z) == (x \div z) * y + ((x % z) * y) \div z

\* Math.floor in place of Math.round.
Round2Truncated(x, y) == (100 * x) \div y

\* Math.round(x / y * 100) / 100, in hundredths: halves round up.
Round2(x, y) == (200 * x + y) \div (2 * y)

Max(a, b) == IF a > b THEN a ELSE b

RECURSIVE Sum(_)
Sum(s) == IF s = <<>> THEN 0 ELSE Head(s) + Sum(Tail(s))

\* v || 0 for a count v.
OrZero(v) == IF v.t = "num" THEN v.n ELSE 0

\* for (const x of v): the elements of v if v is truthy, none otherwise.
Elems(v) == IF v.t = "arr" THEN v.a ELSE <<>>

\* A descending sort that puts a later entry ahead of its equals.
RECURSIVE SortDescUnstable(_, _)
SortDescUnstable(s, field) ==
    IF s = <<>> THEN <<>>
    ELSE LET rest == SortDescUnstable(SubSeq(s, 1, Len(s) - 1), field)
             x == s[Len(s)]
             before == SelectSeq(rest, LAMBDA y : y[field] > x[field])
             after == SelectSeq(rest, LAMBDA y : y[field] <= x[field])
         IN  before \o <<x>> \o after

\* array.sort((a, b) => b[field] - a[field]): stable, descending.
RECURSIVE SortDesc(_, _)
SortDesc(s, field) ==
    IF s = <<>> THEN <<>>
    ELSE LET rest == SortDesc(SubSeq(s, 1, Len(s) - 1), field)
             x == s[Len(s)]
             before == SelectSeq(rest, LAMBDA y : y[field] >= x[field])
             after == SelectSeq(rest, LAMBDA y : y[field] < x[field])
         IN  before \o <<x>> \o after

-----------------------------------------------------------------------------
(* report-generator.ts: the section builders.                              *)

\* day.copilot_ide_code_completions?.languages
Languages(day) == Elems(Get(Get(day, "copilot_ide_code_completions"), "languages"))

\* day.copilot_ide_code_completions?.editors
CompletionEditors(day) == Elems(Get(Get(day, "copilot_ide_code_completions"), "editors"))

\* day.copilot_ide_chat?.editors
ChatEditors(day) == Elems(Get(Get(day, "copilot_ide_chat"), "editors"))

\* The chat models of the IDE-chat editors alone.
ChatModelsIdeOnly(day) ==
    LET editors == ChatEditors(day)
    IN  Flatten([i \in 1..Len(editors) |-> Elems(Get(editors[i], "models"))])

\* The chat models a day is summed over: those of every IDE-chat editor, then
\* those of copilot_dotcom_chat.
ChatModels(day) ==
    LET editors == ChatEditors(day)
    IN  Flatten([i \in 1..Len(editors) |-> Elems(Get(editors[i], "models"))])
        \o Elems(Get(Get(day, "copilot_dotcom_chat"), "models"))

\* The models of every repository of copilot_dotcom_pull_requests.
PullRequestModels(day) ==
    LET repos == Elems(Get(Get(day, "copilot_dotcom_pull_requests"), "repositories"))
    IN  Flatten([i \in 1..Len(repos) |-> Elems(Get(repos[i], "models"))])

\* total += x[field] || 0 over the entries xs.
Total(xs, field) == Sum([i \in 1..Len(xs) |-> OrZero(Get(xs[i], field))])

\* totalDays as the two days of the requested range, not the metrics.
buildMetadataRequestedDays(request, metrics, t) ==
    [enterpriseSlug |-> request.enterpriseSlug,
     orgName |-> request.orgName,
     dateRange |-> request.dateRange,
     generatedAt |-> t,
     totalDays |-> 2]

buildMetadata(request, metrics, t) ==
    [enterpriseSlug |-> request.enterpriseSlug,
     orgName |-> request.orgName,
     dateRange |-> request.dateRange,
     generatedAt |-> t,
     totalDays |-> Len(metrics)]

\* The peak taken from the first day, "N/A" when there is none.
PeakOfFirstDay(metrics) ==
    IF metrics = <<>> THEN [users |-> 0, date |-> "N/A"]
    ELSE [users |-> Get(metrics[1], "total_active_users").n,
          date |-> Get(metrics[1], "date").s]

\* The peak of buildSummary's loop: a day replaces it only if strictly greater.
RECURSIVE PeakOf(_)
PeakOf(metrics) ==
    IF metrics = <<>> THEN [users |-> 0, date |-> ""]
    ELSE LET peak == PeakOf(SubSeq(metrics, 1, Len(metrics) - 1))
             day == metrics[Len(metrics)]
         IN  IF Get(day, "total_active_users").n > peak.users
             THEN [users |-> Get(day, "total_active_users").n,
                   date |-> Get(day, "date").s]
             ELSE peak

RECURSIVE MaxOver(_, _)
MaxOver(metrics, field) ==
    IF metrics = <<>> THEN 0
    ELSE Max(MaxOver(Tail(metrics), field), Get(Head(metrics), field).n)

\* The mean over the days that had active users only.
avgDailyActiveUsersActiveDays(metrics) ==
    LET active == SelectSeq(metrics, LAMBDA m : Get(m, "total_active_users").n > 0)
    IN  IF Len(active) > 0
        THEN Round2(Sum([i \in 1..Len(active) |-> Get(active[i], "total_active_users").n]),
                    Len(active))
        ELSE 0

\* Math.round(avgDailyActiveUsers * 100) / 100 of buildSummary, in hundredths.
avgDailyActiveUsers(metrics) ==
    IF Len(metrics) > 0
    THEN Round2(Sum([i \in 1..Len(metrics) |-> Get(metrics[i], "total_active_users").n]),
                Len(metrics))
    ELSE 0

buildSummary(metrics) ==
    LET n == Len(metrics)
        over(xs(_), field) == Sum([i \in 1..n |-> Total(xs(metrics[i]), field)])
        totalCodeSuggestions == over(Languages, "total_code_suggestions")
        totalCodeAcceptances == over(Languages, "total_code_acceptances")
        peak == PeakOf(metrics)
    IN  [totalActiveUsers |-> MaxOver(metrics, "total_active_users"),
         totalEngagedUsers |-> MaxOver(metrics, "total_engaged_users"),
         peakActiveUsers |-> peak.users,
         peakActiveUsersDate |-> peak.date,
         avgDailyActiveUsers |-> avgDailyActiveUsers(metrics),
         totalCodeSuggestions |-> totalCodeSuggestions,
         totalCodeAcceptances |-> totalCodeAcceptances,
         acceptanceRate |->
             IF totalCodeSuggestions > 0
             THEN Round2(totalCodeAcceptances * 100, totalCodeSuggestions)
             ELSE 0,
         totalLinesOfCodeSuggested |-> over(Languages, "total_code_lines_suggested"),
         totalLinesOfCodeAccepted |-> over(Languages, "total_code_lines_accepted"),
         totalChats |-> over(ChatModels, "total_chats"),
         totalChatInsertions |-> over(ChatModels, "total_chat_insertion_events"),
         totalChatCopyEvents |-> over(ChatModels, "total_chat_copy_events"),
         totalPrSummaries |-> over(PullRequestModels, "total_pr_summaries_created")]

buildDailyMetrics(metrics) ==
    [i \in 1..Len(metrics) |->
        LET day == metrics[i]
            codeSuggestions == Total(Languages(day), "total_code_suggestions")
            codeAcceptances == Total(Languages(day), "total_code_acceptances")
        IN  [date |-> Get(day, "date").s,
             activeUsers |-> Get(day, "total_active_users").n,
             engagedUsers |-> Get(day, "total_engaged_users").n,
             codeSuggestions |-> codeSuggestions,
             codeAcceptances |-> codeAcceptances,
             acceptanceRate |->
                 IF codeSuggestions > 0
                 THEN Round2(codeAcceptances * 100, codeSuggestions)
                 ELSE 0,
             linesOfCodeSuggested |-> Total(Languages(day), "total_code_lines_suggested"),
             linesOfCodeAccepted |-> Total(Languages(day), "total_code_lines_accepted"),
             chatSessions |-> Total(ChatModels(day), "total_chats"),
             chatInsertions |-> Total(ChatModels(day), "total_chat_insertion_events"),
             prSummaries |-> Total(PullRequestModels(day), "total_pr_summaries_created")]]

\* languageMap keeping, for a name, its last entry alone.
RECURSIVE LanguageMapLastWins(_)
LanguageMapLastWins(langs) ==
    IF langs = <<>> THEN MapNew
    ELSE MapSet(LanguageMapLastWins(SubSeq(langs, 1, Len(langs) - 1)),
                Get(langs[Len(langs)], "name").s, langs[Len(langs)])

\* languageMap with the engaged users of a name added up like its totals.
RECURSIVE LanguageMapSummedUsers(_)
LanguageMapSummedUsers(langs) ==
    IF langs = <<>> THEN MapNew
    ELSE LET map == LanguageMapSummedUsers(SubSeq(langs, 1, Len(langs) - 1))
             lang == langs[Len(langs)]
             name == Get(lang, "name").s
         IN  IF MapHas(map, name)
             THEN LET existing == MapGet(map, name)
                  IN  MapSet(map, name,
                         JObj([k \in DOMAIN existing.f |->
                            IF k \in {"total_engaged_users",
                                      "total_code_suggestions", "total_code_acceptances",
                                      "total_code_lines_suggested",
                                      "total_code_lines_accepted"}
                            THEN JNum(Get(existing, k).n + OrZero(Get(lang, k)))
                            ELSE existing.f[k]]))
             ELSE MapSet(map, name, lang)

\* languageMap after the entries langs, in order: a first entry is copied
\* ({ ...lang }), a later one is folded into the copy.
RECURSIVE LanguageMap(_)
LanguageMap(langs) ==
    IF langs = <<>> THEN MapNew
    ELSE LET map == LanguageMap(SubSeq(langs, 1, Len(langs) - 1))
             lang == langs[Len(langs)]
             name == Get(lang, "name").s
             add(existing, field) ==
                 JNum(Get(existing, field).n + OrZero(Get(lang, field)))
         IN  IF MapHas(map, name)
             THEN LET existing == MapGet(map, name)
                  IN  MapSet(map, name,
                         JObj([k \in DOMAIN existing.f |->
                            CASE k = "total_engaged_users" ->
                                   JNum(Max(Get(existing, k).n, Get(lang, k).n))
                              [] k \in {"total_code_suggestions", "total_code_acceptances",
                                        "total_code_lines_suggested",
                                        "total_code_lines_accepted"} ->
                                   add(existing, k)
                              [] OTHER -> existing.f[k]]))
             ELSE MapSet(map, name, lang)

buildLanguageBreakdown(metrics) ==
    LET map == LanguageMap(Flatten([i \in 1..Len(metrics) |-> Languages(metrics[i])]))
    IN  SortDesc([i \in 1..Len(map) |->
                    LET lang == map[i].value
                    IN  [language |-> Get(lang, "name").s,
                         engagedUsers |-> Get(lang, "total_engaged_users").n,
                         suggestions |-> Get(lang, "total_code_suggestions").n,
                         acceptances |-> Get(lang, "total_code_acceptances").n,
                         acceptanceRate |->
                             IF Get(lang, "total_code_suggestions").n > 0
                             THEN Round2(Get(lang, "total_code_acceptances").n * 100,
                                         Get(lang, "total_code_suggestions").n)
                             ELSE 0,
                         linesSuggested |-> Get(lang, "total_code_lines_suggested").n,
                         linesAccepted |-> Get(lang, "total_code_lines_accepted").n]],
                 "suggestions")

\* What one day feeds into editorMap, in order: its code-completion editors
\* (no chat sessions), then its IDE-chat editors (the chats of their models).
EditorObservations(day) ==
    LET completions == CompletionEditors(day)
        chats == ChatEditors(day)
    IN  [i \in 1..Len(completions) |->
            [name |-> Get(completions[i], "name").s,
             engagedUsers |-> Get(completions[i], "total_engaged_users").n,
             chatSessions |-> 0]]
        \o [i \in 1..Len(chats) |->
            [name |-> Get(chats[i], "name").s,
             engagedUsers |-> Get(chats[i], "total_engaged_users").n,
             chatSessions |-> Total(Elems(Get(chats[i], "models")), "total_chats")]]

\* editorMap with a later observation replacing the entry of its name.
RECURSIVE EditorMapOverwriting(_)
EditorMapOverwriting(observations) ==
    IF observations = <<>> THEN MapNew
    ELSE LET map == EditorMapOverwriting(SubSeq(observations, 1, Len(observations) - 1))
             seen == observations[Len(observations)]
         IN  MapSet(map, seen.name,
                    [engagedUsers |-> seen.engagedUsers,
                     chatSessions |-> seen.chatSessions])

RECURSIVE EditorMap(_)
EditorMap(observations) ==
    IF observations = <<>> THEN MapNew
    ELSE LET map == EditorMap(SubSeq(observations, 1, Len(observations) - 1))
             seen == observations[Len(observations)]
         IN  IF MapHas(map, seen.name)
             THEN LET existing == MapGet(map, seen.name)
                  IN  MapSet(map, seen.name,
                         [engagedUsers |-> Max(existing.engagedUsers, seen.engagedUsers),
                          chatSessions |-> existing.chatSessions + seen.chatSessions])
             ELSE MapSet(map, seen.name,
                         [engagedUsers |-> seen.engagedUsers,
                          chatSessions |-> seen.chatSessions])

buildEditorBreakdown(metrics) ==
    LET map == EditorMap(Flatten([i \in 1..Len(metrics) |-> EditorObservations(metrics[i])]))
    IN  SortDesc([i \in 1..Len(map) |->
                    [editor |-> map[i].key,
                     engagedUsers |-> map[i].value.engagedUsers,
                     chatSessions |-> map[i].value.chatSessions]],
                 "engagedUsers")

buildTrends(dailyMetrics) ==
    [activeUsersTrend |->
        [i \in 1..Len(dailyMetrics) |->
            [date |-> dailyMetrics[i].date, value |-> dailyMetrics[i].activeUsers]],
     acceptanceRateTrend |->
        [i \in 1..Len(dailyMetrics) |->
            [date |-> dailyMetrics[i].date, value |-> dailyMetrics[i].acceptanceRate]],
     suggestionsVolumeTrend |->
        [i \in 1..Len(dailyMetrics) |->
            [date |-> dailyMetrics[i].date, value |-> dailyMetrics[i].codeSuggestions]]]

-----------------------------------------------------------------------------
(* report-generator.ts: generateMockReport.                                *)

\* The calendar days the requests range over; new Date(s) of any other
\* string is an Invalid Date, whose getTime() is NaN.
CalendarDays == <<"2026-03-07", "2026-03-08", "2026-03-09", "2026-03-10">>

\* new Date(s).getTime() in days, None for NaN.
ParseDate(s) ==
    IF \E i \in 1..Len(CalendarDays) : CalendarDays[i] = s
    THEN Some(CHOOSE i \in 1..Len(CalendarDays) : CalendarDays[i] = s)
    ELSE None

\* getDay() of calendar day d (0 is the day before the first):
\* 2026-03-07 is a Saturday.
DayOfWeek(d) == (d + 5) % 7

\* The time zones the process may run in; the local-time methods of Date
\* (getDate, setDate, getDay) read the zone, toISOString and the parse of a
\* date-only string do not.
Zones == {"UTC", "America/New_York"}

\* Instants and wall-clock times are in hours, calendar day d beginning at
\* hour 24 * d.  Daylight saving time begins in New York on 2026-03-08 at
\* 02:00 local time, 07:00 UTC.
DstBeginsUtc == 24 * 2 + 7
DstBeginsLocal == 24 * 2 + 2

\* The wall-clock time of an instant.
ToLocal(zone, utc) ==
    IF zone = "UTC" THEN utc
    ELSE IF utc < DstBeginsUtc THEN utc - 5 ELSE utc - 4

\* The instant of a wall-clock time (a time in the skipped hour is read with
\* the offset in force before it).
ToUtc(zone, local) ==
    IF zone = "UTC" THEN local
    ELSE IF local < DstBeginsLocal + 1 THEN local + 5 ELSE local + 4

\* Math.sin(n) in ten-thousandths, n = 0, 1, 2, ...
SinTable ==
    <<0, 8415, 9093, 1411, -7568, -9589, -2794, 6570, 9894, 4121, -5440,
      -10000, -5366, 4202, 9906, 6503, -2879, -9614, -7510, 1499, 9129,
      8367, -89, -8462, -9056, -1324, 7626, 9564, 2709, -6636, -9880,
      -4040, 5514, 9999, 5291, -4282, -9918, -6435, 2964, 9638, 7451>>
Sin(n) == SinTable[n + 1]

\* Math.random(): the k-th draw of a report, in hundredths, read off a tape
\* that repeats.
Random(tape, k) == tape[((k - 1) % Len(tape)) + 1]

\* The Math.random() calls one pass of the daily loop makes.
DrawsPerDay == 8

\* seededRandom(base, variance, offset) with Math.random() = r / 100.
seededRandom(seed, base, variance, offset, r) ==
    base + ((Sin(seed + offset) + 10000) * variance + r * variance * 60) \div 20000

\* The i-th pass (i = 0, 1, ...) of the daily loop for a range starting on
\* calendar day start, in a process running in zone.
MockDay(zone, start, i, tape) ==
    LET r(j) == Random(tape, DrawsPerDay * i + j)
        \* new Date(startDate), setDate(getDate() + i)
        local == ToLocal(zone, 24 * start) + 24 * i
        \* toISOString().split('T')[0]
        dateStr == CalendarDays[ToUtc(zone, local) \div 24]
        weekend == DayOfWeek(local \div 24) \in {0, 6}
        activeUsers == ((IF weekend THEN 767 ELSE 1180) * (200 + i) * (450 + r(1))) \div 100000
        suggestions == ((IF weekend THEN 273 ELSE 420) * (200 + i) * (450 + r(1))) \div 1000
        acceptanceRate == 2800 + 8 * r(2)
        chatMultiplier == 1100 + 3 * r(3)
    IN  [date |-> dateStr,
         activeUsers |-> activeUsers,
         engagedUsers |-> (activeUsers * (8200 + 8 * r(4))) \div 10000,
         codeSuggestions |-> suggestions,
         codeAcceptances |-> (suggestions * acceptanceRate) \div 10000,
         acceptanceRate |-> acceptanceRate,
         linesOfCodeSuggested |-> (suggestions * (2800 + 8 * r(5))) \div 1000,
         linesOfCodeAccepted |->
             MulDiv(suggestions * (350 + r(6)), 350 + r(2), 156250),
         chatSessions |-> (activeUsers * chatMultiplier) \div 500,
         chatInsertions |->
             MulDiv(activeUsers * chatMultiplier, 700 + 3 * r(7), 1000000),
         prSummaries |-> (activeUsers * (1200 + 6 * r(8))) \div 10000]

\* dailyMetrics after the first n passes of the loop.
RECURSIVE MockDays(_, _, _, _)
MockDays(zone, start, n, tape) ==
    IF n = 0 THEN <<>>
    ELSE Append(MockDays(zone, start, n - 1, tape), MockDay(zone, start, n - 1, tape))

\* The language roster: name, users base and variance, suggestions base and
\* variance, offset, acceptance rate in hundredths.
MockLanguages ==
    <<<<"TypeScript", 920, 100, 485000, 50000, 1, 3350>>,
      <<"Python", 780, 80, 425000, 40000, 2, 3520>>,
      <<"JavaScript", 690, 70, 320000, 30000, 3, 3080>>,
      <<"C#", 450, 50, 215000, 20000, 4, 2940>>,
      <<"Java", 420, 45, 185000, 18000, 5, 2820>>,
      <<"Go", 245, 30, 102000, 12000, 6, 3380>>,
      <<"Ruby", 180, 25, 76000, 8000, 7, 3120>>,
      <<"Rust", 125, 20, 58000, 7000, 8, 3450>>,
      <<"PHP", 165, 20, 68000, 7000, 9, 2780>>,
      <<"SQL", 385, 40, 92000, 10000, 10, 2960>>,
      <<"Kotlin", 195, 25, 82000, 9000, 11, 3140>>,
      <<"Swift", 140, 18, 62000, 7000, 12, 3010>>>>

\* The editor roster: name, users base and variance, chat sessions base and
\* variance, offset.
MockEditors ==
    <<<<"VS Code", 1050, 100, 58000, 5000, 20>>,
      <<"Visual Studio", 340, 40, 14500, 1500, 21>>,
      <<"JetBrains IDEs", 295, 35, 12800, 1200, 22>>,
      <<"Neovim", 95, 15, 4200, 500, 23>>,
      <<"Xcode", 52, 10, 2100, 300, 24>>,
      <<"Eclipse", 38, 8, 1600, 200, 25>>>>

\* The first day with the most active users (reduce keeps max unless d is
\* strictly greater).
MockPeak(dailyMetrics) ==
    LET top == CHOOSE i \in 1..Len(dailyMetrics) :
                 /\ \A j \in 1..Len(dailyMetrics) :
                       dailyMetrics[j].activeUsers <= dailyMetrics[i].activeUsers
                 /\ \A j \in 1..(i - 1) :
                       dailyMetrics[j].activeUsers < dailyMetrics[i].activeUsers
    IN  dailyMetrics[top]

\* generateMockReport(request, apiError) at time t in a process running in
\* zone, Math.random() reading tape: the report it returns (Fulfilled) or the
\* error it throws (Rejected).
generateMockReport(request, apiError, tape, zone, t) ==
    LET startDate == ParseDate(request.dateRange.from)
        endDate == ParseDate(request.dateRange.to)
        \* NaN (None) when a date is invalid
        days == IF startDate.some /\ endDate.some
                THEN Some(endDate.v - startDate.v + 1)
                ELSE None
        passes == IF days.some /\ days.v > 0 THEN days.v ELSE 0
        seed == Len(request.enterpriseSlug)
                + (IF request.orgName.some THEN Len(request.orgName.v) ELSE 0)
        dailyMetrics == MockDays(zone, startDate.v, passes, tape)
        field(f) == [i \in 1..passes |-> dailyMetrics[i][f]]
        drawn == DrawsPerDay * passes
        totalSuggestions == Sum(field("codeSuggestions"))
        totalAcceptances == Sum(field("codeAcceptances"))
        languageBreakdown ==
            SortDesc([j \in 1..Len(MockLanguages) |->
                        LET l == MockLanguages[j]
                            suggestions == seededRandom(seed, l[4], l[5], l[6],
                                                        Random(tape, drawn + 2 * j))
                        IN  [language |-> l[1],
                             engagedUsers |-> seededRandom(seed, l[2], l[3], l[6],
                                                           Random(tape, drawn + 2 * j - 1)),
                             suggestions |-> suggestions,
                             acceptances |-> MulDiv(suggestions, l[7], 10000),
                             acceptanceRate |-> l[7],
                             linesSuggested |-> (suggestions * 32) \div 10,
                             linesAccepted |-> MulDiv(suggestions * 32, l[7], 100000)]],
                     "suggestions")
        drawnLanguages == drawn + 2 * Len(MockLanguages)
        editorBreakdown ==
            SortDesc([j \in 1..Len(MockEditors) |->
                        LET e == MockEditors[j]
                        IN  [editor |-> e[1],
                             engagedUsers |-> seededRandom(seed, e[2], e[3], e[6],
                                                  Random(tape, drawnLanguages + 2 * j - 1)),
                             chatSessions |-> seededRandom(seed, e[4], e[5], e[6],
                                                  Random(tape, drawnLanguages + 2 * j))]],
                     "engagedUsers")
    IN  IF passes = 0
        THEN \* peakDay is dailyMetrics[0], undefined
             Rejected(TypeError("Cannot read properties of undefined (reading 'activeUsers')"))
        ELSE LET peakDay == MockPeak(dailyMetrics)
             IN  Fulfilled(
                 [metadata |->
                     [enterpriseSlug |-> request.enterpriseSlug,
                      orgName |-> request.orgName,
                      dateRange |-> request.dateRange,
                      generatedAt |-> t,
                      totalDays |-> days.v],
                  summary |->
                     [totalActiveUsers |-> peakDay.activeUsers,
                      totalEngagedUsers |->
                          (LET top == CHOOSE i \in 1..passes : \A j \in 1..passes :
                                          dailyMetrics[j].engagedUsers
                                             <= dailyMetrics[i].engagedUsers
                           IN  dailyMetrics[top].engagedUsers),
                      peakActiveUsers |-> peakDay.activeUsers,
                      peakActiveUsersDate |-> peakDay.date,
                      avgDailyActiveUsers |->
                          100 * ((2 * Sum(field("activeUsers")) + days.v) \div (2 * days.v)),
                      totalCodeSuggestions |-> totalSuggestions,
                      totalCodeAcceptances |-> totalAcceptances,
                      acceptanceRate |-> Round2(totalAcceptances * 100, totalSuggestions),
                      totalLinesOfCodeSuggested |-> Sum(field("linesOfCodeSuggested")),
                      totalLinesOfCodeAccepted |-> Sum(field("linesOfCodeAccepted")),
                      totalChats |-> Sum(field("chatSessions")),
                      totalChatInsertions |-> Sum(field("chatInsertions")),
                      totalChatCopyEvents |-> (Sum(field("chatInsertions")) * 42) \div 100,
                      totalPrSummaries |-> Sum(field("prSummaries"))],
                  dailyMetrics |-> dailyMetrics,
                  languageBreakdown |-> languageBreakdown,
                  editorBreakdown |-> editorBreakdown,
                  trends |-> buildTrends(dailyMetrics),
                  dataSource |-> "mock",
                  apiError |-> apiError])

-----------------------------------------------------------------------------
(* report-generator.ts: generateReport.                                    *)

\* if (request.orgName)
HasOrgName(request) == request.orgName.some /\ request.orgName.v # ""

generateReportCallEnterpriseOnly(request, store, token, t) ==
    <<getEnterpriseMetrics(request.enterpriseSlug, request.dateRange, store, token, t)>>

\* The try block: the client calls generateReport makes, each with what it
\* did before its first await.
generateReportCall(request, store, token, t) ==
    IF HasOrgName(request)
    THEN <<getOrganizationMetrics(request.orgName.v, request.dateRange, store, token, t)>>
    ELSE <<getEnterpriseMetrics(request.enterpriseSlug, request.dateRange, store, token, t)>>

errorMessageLogged(error) ==
    "API failed: " \o (IF error.isError THEN error.message ELSE JsString(error.value))

\* error instanceof Error ? error.message : String(error)
errorMessage(error) == IF error.isError THEN error.message ELSE JsString(error.value)

\* Step 2 of generateReport: the live report built from the metrics.
liveReport(request, metrics, t) ==
    LET dailyMetrics == buildDailyMetrics(metrics)
    IN  [metadata |-> buildMetadata(request, metrics, t),
         summary |-> buildSummary(metrics),
         dailyMetrics |-> dailyMetrics,
         languageBreakdown |-> buildLanguageBreakdown(metrics),
         editorBreakdown |-> buildEditorBreakdown(metrics),
         trends |-> buildTrends(dailyMetrics),
         dataSource |-> "live",
         apiError |-> None]

generateReportResumeNoCatch(request, settled, tape, zone, t) ==
    IF settled.status = "rejected"
    THEN settled
    ELSE Fulfilled(liveReport(request, settled.value.a, t))

\* generateReport from the point its client call has settled: the catch
\* block with the mock fallback, or step 2.
generateReportResume(request, settled, tape, zone, t) ==
    IF settled.status = "rejected"
    THEN generateMockReport(request, Some(errorMessage(settled.reason)), tape, zone, t)
    ELSE Fulfilled(liveReport(request, settled.value.a, t))

-----------------------------------------------------------------------------
(* Raw values the upstream API may deliver (tests/fixtures/api-responses). *)

Language(name) ==
    JObj([name |-> JStr(name),
          total_engaged_users |-> JNum(3),
          total_code_suggestions |-> JNum(10),
          total_code_acceptances |-> JNum(5),
          total_code_lines_suggested |-> JNum(25),
          total_code_lines_accepted |-> JNum(12)])

Day(date, active) ==
    JObj([date |-> JStr(date),
          total_active_users |-> JNum(active),
          total_engaged_users |-> JNum(active)])

\* responseWithExtraFields: a section the schema does not know.
Workspace == JObj([total_engaged_users |-> JNum(15), total_sessions |-> JNum(45)])

\* Days that differ in their top-level fields only.
TopLevelDays ==
    LET dates == {Undefined, JStr("2026-01-15"), JNum(20260115)}
        actives == {Undefined, JNum(0), JNum(120), JStr("100")}
        fields(d, a) == {k \in {"date", "total_active_users"} :
                           (IF k = "date" THEN d ELSE a) # Undefined}
        plain == {JObj([k \in fields(d, a) |-> IF k = "date" THEN d ELSE a]) :
                    d \in dates, a \in actives}
        extra == {With(Day("2026-01-15", 120), "copilot_workspace", Workspace),
                  With(Day("2026-01-16", 0), "copilot_workspace", Workspace),
                  With(JObj([total_active_users |-> JNum(100)]),
                       "copilot_workspace", Workspace)}
    IN  plain \cup extra

\* Array elements that are no objects (invalidResponses.arrayWithNull).
NonObjectDays == {JNull, JStr("2026-01-15"), JArr(<<>>)}

\* The code-completion sections tried inside an otherwise full day.
CompletionSections ==
    LET model == JObj([name |-> JStr("gpt-4o")])
        editor(m) == JObj([name |-> JStr("VS Code"), models |-> JArr(<<m>>)])
        langs(l) == JObj([total_engaged_users |-> JNum(4), languages |-> JArr(<<l>>)])
    IN  {JNull,
         JObj([api_revision |-> JStr("2026-02")]),
         langs(Language("Python")),
         langs(JObj([name |-> JStr("Python")])),
         langs(Without(Language("Python"), "name")),
         langs(With(Language("Python"), "total_code_suggestions", JStr("10"))),
         langs(With(Language("Python"), "total_rejected_suggestions", JNum(500))),
         JObj([editors |-> JArr(<<editor(model)>>)]),
         JObj([editors |-> JArr(<<editor(With(model, "is_custom_model", JStr("yes")))>>)]),
         JObj([editors |-> JArr(<<editor(With(With(model, "custom_model_training_date", JNull),
                                              "total_code_suggestions", JNum(7)))>>)])}

\* Days that differ in a nested section only.
NestedDays ==
    {With(Day("2026-01-17", 80), "copilot_ide_code_completions", s) :
        s \in CompletionSections}
    \cup {With(Day("2026-01-17", 80), "copilot_dotcom_chat",
               JObj([models |-> JArr(<<JObj([name |-> JStr("gpt-4o")])>>)])),
          With(Day("2026-01-17", 80), "copilot_dotcom_chat",
               JObj([models |-> JObj([name |-> JStr("gpt-4o")])]))}

RawDays == TopLevelDays \cup NonObjectDays \cup NestedDays

RECURSIVE SeqsUpTo(_, _)
SeqsUpTo(S, n) ==
    IF n = 0 THEN {<<>>}
    ELSE LET shorter == SeqsUpTo(S, n - 1)
         IN  shorter \cup {Append(q, x) : q \in {p \in shorter : Len(p) = n - 1}, x \in S}

\* invalidResponses.nullResponse, .objectInsteadOfArray, and the arrays.
RawValues ==
    {JNull, JObj([date |-> JStr("2026-01-15"), total_active_users |-> JNum(100)])}
    \cup {JArr(a) : a \in SeqsUpTo(RawDays, MaxDays)}

-----------------------------------------------------------------------------
(* The validator on its own: one untrusted value, validated as a response  *)
(* and as a single day.                                                    *)

InitValidator ==
    /\ input \in RawValues \cup RawDays
    /\ result = None
    /\ cache = MapNew
    /\ now = 0
    /\ calls = <<>>
    /\ cleared = None

Validate ==
    /\ result = None
    /\ result' = Some(validateMetricsResponse(input))
    /\ UNCHANGED <<input, cache, now, calls, cleared>>

\* validateSingleDayMetrics(input); calls holds what it returned.
ValidateSingleDay ==
    /\ calls = <<>>
    /\ calls' = <<validateSingleDayMetrics(input)>>
    /\ UNCHANGED <<input, result, cache, now, cleared>>

NextValidator == Validate \/ ValidateSingleDay

SpecValidator == InitValidator /\ [][NextValidator]_vars

-----------------------------------------------------------------------------
(* The report service: generators over the two clients, the shared cache,  *)
(* the upstream API and the clock.                                         *)

Request(enterpriseSlug, orgName, from, to) ==
    [enterpriseSlug |-> enterpriseSlug,
     orgName |-> orgName,
     dateRange |-> [from |-> from, to |-> to]]

\* The requests tried (reportInputSchema takes any strings for the dates).
Requests ==
    {Request("acme", None, "2026-03-07", "2026-03-08"),
     Request("acme", Some("eng"), "2026-03-07", "2026-03-08"),
     Request("acme", Some(""), "2026-03-09", "2026-03-09"),
     Request("acme", None, "2026-03-09", "2026-03-08"),
     Request("acme", None, "2026-03-07:2026-03-08", "2026-03-09"),
     Request("acme", None, "2026-03-07", "2026-03-08:2026-03-09")}

\* A full day of the API (completeValidResponse, cut down).
FullDay ==
    JObj([date |-> JStr("2026-03-07"),
          total_active_users |-> JNum(100),
          total_engaged_users |-> JNum(80),
          copilot_ide_code_completions |->
              JObj([total_engaged_users |-> JNum(70),
                    languages |-> JArr(<<Language("TypeScript"),
                                         With(Language("Python"),
                                              "total_code_suggestions", JNum(30))>>),
                    editors |-> JArr(<<JObj([name |-> JStr("JetBrains"),
                                             total_engaged_users |-> JNum(20)]),
                                       JObj([name |-> JStr("VS Code"),
                                             total_engaged_users |-> JNum(60)])>>)]),
          copilot_ide_chat |->
              JObj([total_engaged_users |-> JNum(50),
                    editors |-> JArr(<<JObj([name |-> JStr("VS Code"),
                                             total_engaged_users |-> JNum(65),
                                             models |-> JArr(<<JObj([name |-> JStr("gpt-4"),
                                                                     total_chats |-> JNum(30),
                                                                     total_chat_insertion_events |-> JNum(10),
                                                                     total_chat_copy_events |-> JNum(5)])>>)])>>)]),
          copilot_dotcom_chat |->
              JObj([total_engaged_users |-> JNum(9),
                    models |-> JArr(<<JObj([name |-> JStr("gpt-4"),
                                            total_chats |-> JNum(10)])>>)]),
          copilot_dotcom_pull_requests |->
              JObj([total_engaged_users |-> JNum(8),
                    repositories |-> JArr(<<JObj([name |-> JStr("main-app"),
                                                  models |-> JArr(<<JObj([name |-> JStr("gpt-4"),
                                                                          total_pr_summaries_created |-> JNum(7)])>>)])>>)])])

\* The bodies the upstream answers 200 with: two valid ones (emptyResponse,
\* mixedActivityResponse) and an invalid one (two days, four errors).
Payloads ==
    {JArr(<<>>),
     JArr(<<FullDay, Day("2026-03-08", 0)>>),
     JArr(<<JObj([total_active_users |-> JStr("100")]),
            JObj([total_active_users |-> JStr("100")])>>)}

\* What fetch may settle with.
UpstreamOutcomes ==
    {FetchRejects(Error("fetch failed")),
     FetchRejects(Thrown(JNum(503))),
     HttpError(404, "Not Found")}
    \cup {HttpOk(p) : p \in Payloads}

\* The tapes Math.random() may read.
RandomTapes == {<<0>>, <<99, 50>>}

\* A generateReport call: what it asked of the client and how far it got.
NewCall(client, request, clientCalls) ==
    [client |-> client,
     afterClear |-> cleared.some /\ clientCalls[1].cacheKey \in cleared.v,
     request |-> request,
     clientCalls |-> [i \in 1..Len(clientCalls) |->
                        [method |-> clientCalls[i].method, args |-> clientCalls[i].args]],
     cacheKey |-> clientCalls[1].cacheKey,
     context |-> clientCalls[1].context,
     endpoint |-> clientCalls[1].endpoint,
     hit |-> clientCalls[1].hit,
     requested |-> clientCalls[1].requested,
     settled |-> clientCalls[1].settled,
     returned |-> None]

Init ==
    /\ cache = MapNew
    /\ now = 0
    /\ calls = <<>>
    /\ cleared = None
    /\ input = JNull
    /\ result = None

\* The reports generateReport may end with once its client call has settled:
\* one for each tape and zone if the mock generator runs, one otherwise.
Returns(request, settled, t) ==
    {generateReportResume(request, settled, tape, zone, t) :
        tape \in (IF settled.status = "rejected" THEN RandomTapes ELSE {<<0>>}),
        zone \in (IF settled.status = "rejected" THEN Zones ELSE {"UTC"})}

\* generateReport(request) on the generator of a client, up to the point
\* where it is suspended on fetch, or to its end if it never is.
GenerateReport(client, request) ==
    /\ Len(calls) < MaxCalls
    /\ \E made \in {generateReportCall(request, cache, Token(client), now)} :
       \E call \in {NewCall(client, request, made)} :
          /\ cache' = made[1].cache
          /\ IF call.settled.some
             THEN \E returned \in Returns(request, call.settled.v, now) :
                     calls' = Append(calls, [call EXCEPT !.returned = Some(returned)])
             ELSE calls' = Append(calls, call)
    /\ cleared' = None
    /\ UNCHANGED <<now, input, result>>

\* fetch settles for a suspended call, which then runs to its end:
\* validateResponse, setCache, the report.
RequestSettles(i, u) ==
    /\ i \in 1..Len(calls)
    /\ ~calls[i].settled.some
    /\ \E resumed \in {MetricsResume(calls[i].cacheKey, calls[i].context, cache,
                                      requestSettles(u), now)} :
          /\ cache' = resumed.cache
          /\ \E returned \in Returns(calls[i].request, resumed.settled, now) :
                calls' = [calls EXCEPT ![i] =
                            [@ EXCEPT !.settled = Some(resumed.settled),
                                      !.returned = Some(returned)]]
    /\ cleared' = None
    /\ UNCHANGED <<now, input, result>>

ClearCache ==
    /\ cache' = clearCache(cache, now)
    /\ cleared' = Some({cache[k].key : k \in 1..Len(cache)})
    /\ UNCHANGED <<now, calls, input, result>>

\* Time passes.
Tick ==
    /\ now < MaxTime
    /\ now' = now + 1
    /\ UNCHANGED <<cache, calls, cleared, input, result>>

Next ==
    \/ \E client \in Clients, request \in Requests : GenerateReport(client, request)
    \/ \E i \in 1..MaxCalls, u \in UpstreamOutcomes : RequestSettles(i, u)
    \/ ClearCache
    \/ Tick

Spec == Init /\ [][Next]_vars

-----------------------------------------------------------------------------
(* What the claims about the report service speak of.                      *)

\* The calls that have returned to their caller.
Returned == {i \in 1..Len(calls) : calls[i].returned.some}

\* The call a step begins, if it begins one.
Begins == Len(calls') = Len(calls) + 1
Begun == calls'[Len(calls')]

\* A well-formed request: both dates are calendar days, from not after to.
WellFormed(request) ==
    \E i, j \in 1..Len(CalendarDays) :
        /\ request.dateRange.from = CalendarDays[i]
        /\ request.dateRange.to = CalendarDays[j]
        /\ i <= j

ReportSections ==
    {"metadata", "summary", "dailyMetrics", "languageBreakdown",
     "editorBreakdown", "trends", "dataSource", "apiError"}

\* The message a rejection carries: an Error's message, or the text of a
\* value that is no Error.
MessageOf(reason) ==
    IF reason.isError THEN reason.message
    ELSE IF reason.value.t = "num" THEN ToString(reason.value.n)
    ELSE reason.value.s

\* C1: for every well-formed request generateReport resolves with a Report,
\* whatever the client call did: a live report over the fetched days if it
\* resolved, a mock report if it rejected (transport error, missing token,
\* non-2xx, validation failure, Error or not); nothing is thrown to the caller.
C1_AlwaysResolves ==
    \A i \in Returned :
        WellFormed(calls[i].request) =>
            LET settled == calls[i].settled.v
                returned == calls[i].returned.v
            IN  /\ returned.status = "fulfilled"
                /\ DOMAIN returned.value = ReportSections
                /\ settled.status = "fulfilled" =>
                      /\ returned.value.dataSource = "live"
                      /\ returned.value.metadata.totalDays = Len(settled.value.a)
                      /\ [d \in 1..Len(settled.value.a) |->
                             returned.value.dailyMetrics[d].date]
                         = [d \in 1..Len(settled.value.a) |->
                               Get(settled.value.a[d], "date").s]
                /\ settled.status = "rejected" =>
                      /\ returned.value.dataSource = "mock"
                      /\ Len(returned.value.dailyMetrics) > 0

C1_Witness ==
    /\ \E i \in Returned :
          /\ WellFormed(calls[i].request)
          /\ calls[i].settled.v.status = "rejected"
          /\ ~calls[i].settled.v.reason.isError
          /\ calls[i].returned.v.status = "fulfilled"
    /\ \E i \in Returned :
          /\ WellFormed(calls[i].request)
          /\ calls[i].settled.v.status = "fulfilled"
          /\ Len(calls[i].settled.v.value.a) = 2
          /\ calls[i].returned.v.status = "fulfilled"

\* C2: the source tag follows the outcome of the client call: a rejection
\* with message M gives dataSource "mock" and apiError M, unchanged; a
\* resolution gives dataSource "live" and no apiError; a live report never
\* carries an apiError.
C2_SourceTagFollowsFetch ==
    \A i \in Returned :
        calls[i].returned.v.status = "fulfilled" =>
            LET settled == calls[i].settled.v
                report == calls[i].returned.v.value
            IN  /\ settled.status = "rejected" =>
                      /\ report.dataSource = "mock"
                      /\ report.apiError = Some(MessageOf(settled.reason))
                /\ settled.status = "fulfilled" =>
                      /\ report.dataSource = "live"
                      /\ report.apiError = None
                /\ report.dataSource = "live" => report.apiError = None

C2_Witness ==
    /\ \E i \in Returned :
          /\ calls[i].returned.v.status = "fulfilled"
          /\ calls[i].returned.v.value.dataSource = "mock"
          /\ calls[i].returned.v.value.apiError = Some("GitHub API error (404): Not Found")
    /\ \E i \in Returned :
          /\ calls[i].returned.v.status = "fulfilled"
          /\ calls[i].returned.v.value.dataSource = "live"

\* C3: once a client method has succeeded for a key, its data is stored until
\* one TTL later, and a call with the same key begun before the entry expires
\* (no clearCache having removed it) returns that data without a request
\* and leaves the store as it was.
C3_CachedWithinTtl ==
    [][/\ \A i \in 1..Len(calls) :
             (/\ ~calls[i].settled.some
              /\ Len(calls') = Len(calls)
              /\ calls'[i].settled.some
              /\ calls'[i].settled.v.status = "fulfilled") =>
                 /\ MapHas(cache', calls[i].cacheKey)
                 /\ MapGet(cache', calls[i].cacheKey).data = calls'[i].settled.v.value
                 /\ MapGet(cache', calls[i].cacheKey).expiresAt = now + CACHE_TTL_MS
       /\ (/\ Begins
           /\ MapHas(cache, Begun.cacheKey)
           /\ now < MapGet(cache, Begun.cacheKey).expiresAt) =>
              /\ Begun.hit
              /\ ~Begun.requested
              /\ Begun.settled = Some(Fulfilled(MapGet(cache, Begun.cacheKey).data))
              /\ cache' = cache
      ]_vars

C3_Witness ==
    \E i, j \in Returned :
        /\ i < j
        /\ calls[i].requested
        /\ calls[i].settled.v.status = "fulfilled"
        /\ calls[j].cacheKey = calls[i].cacheKey
        /\ calls[j].hit
        /\ ~calls[j].requested
        /\ calls[j].settled = calls[i].settled

\* C4 as stated: a cache read returns the stored data only while
\* now < expiresAt; from now = expiresAt on it reports a miss and removes the
\* entry, so that getCacheStats no longer lists the key and the request goes
\* to the network (for a client holding a token).
C4_AsStated ==
    [][(Begins /\ MapHas(cache, Begun.cacheKey)) =>
          IF now < MapGet(cache, Begun.cacheKey).expiresAt
          THEN Begun.settled = Some(Fulfilled(MapGet(cache, Begun.cacheKey).data))
          ELSE /\ ~Begun.hit
               /\ \A k \in 1..getCacheStats(cache').size :
                     getCacheStats(cache').keys[k] # Begun.cacheKey
               /\ Token(Begun.client) # "" => Begun.requested
      ]_vars

\* C5: clearCache empties the store whatever the freshness of its entries:
\* right after it getCacheStats reports size 0 and no keys, and the next
\* request for a key that was cached misses and goes to the network (for a
\* client holding a token).
C5_ClearCacheEmpties ==
    [][/\ cleared'.some => getCacheStats(cache') = [size |-> 0, keys |-> <<>>]
       /\ (/\ Begins
           /\ cleared.some
           /\ Begun.cacheKey \in cleared.v) =>
              /\ ~Begun.hit
              /\ Token(Begun.client) # "" => Begun.requested
      ]_vars

C5_Witness ==
    \E i, j \in 1..Len(calls) :
        /\ i < j
        /\ calls[i].cacheKey = calls[j].cacheKey
        /\ calls[i].requested
        /\ calls[i].returned.some
        /\ calls[i].returned.v.status = "fulfilled"
        /\ calls[i].returned.v.value.dataSource = "live"
        /\ calls[i].returned.v.value.metadata.generatedAt = now
        /\ calls[j].afterClear
        /\ calls[j].requested
        /\ ~calls[j].settled.some

\* The scope type of a client method.
ScopeType(method) == IF method = "getEnterpriseMetrics" THEN "enterprise" ELSE "org"

\* The (scopeType, scopeId, from, to) of a call.
Tuple(call) ==
    <<ScopeType(call.clientCalls[1].method), call.clientCalls[1].args[1],
      call.clientCalls[1].args[2].from, call.clientCalls[1].args[2].to>>

\* C6 as stated: getCacheStats gives the number of stored entries and exactly
\* the stored keys; each key is "{scopeType}:{scopeId}:{from}:{to}"; calls
\* with an identical tuple use one entry, and calls that differ in date range
\* or scope type use two.
C6_AsStated ==
    /\ getCacheStats(cache).size = Len(cache)
    /\ getCacheStats(cache).keys = [k \in 1..Len(cache) |-> cache[k].key]
    /\ \A k, l \in 1..Len(cache) : cache[k].key = cache[l].key => k = l
    /\ \A i \in 1..Len(calls) :
          calls[i].cacheKey =
              Tuple(calls[i])[1] \o ":" \o Tuple(calls[i])[2] \o ":"
              \o Tuple(calls[i])[3] \o ":" \o Tuple(calls[i])[4]
    /\ \A i, j \in 1..Len(calls) :
          (Tuple(calls[i]) = Tuple(calls[j])) <=> (calls[i].cacheKey = calls[j].cacheKey)

\* C7: generateReport makes exactly one client call per report:
\* getOrganizationMetrics(orgName, dateRange) when the request has a
\* (non-empty) orgName, getEnterpriseMetrics(enterpriseSlug, dateRange)
\* otherwise, against that endpoint alone.
C7_OneEndpointPerReport ==
    \A i \in 1..Len(calls) :
        LET request == calls[i].request
        IN  /\ Len(calls[i].clientCalls) = 1
            /\ IF request.orgName.some /\ request.orgName.v # ""
               THEN /\ calls[i].clientCalls[1] =
                          [method |-> "getOrganizationMetrics",
                           args |-> <<request.orgName.v, request.dateRange>>]
                    /\ calls[i].endpoint =
                          "/orgs/" \o request.orgName.v \o "/copilot/metrics"
               ELSE /\ calls[i].clientCalls[1] =
                          [method |-> "getEnterpriseMetrics",
                           args |-> <<request.enterpriseSlug, request.dateRange>>]
                    /\ calls[i].endpoint =
                          "/enterprises/" \o request.enterpriseSlug \o "/copilot/metrics"

C7_Witness ==
    /\ \E i \in Returned :
          /\ calls[i].request.orgName = Some("eng")
          /\ calls[i].clientCalls[1].method = "getOrganizationMetrics"
          /\ calls[i].requested
    /\ \E i \in Returned :
          /\ calls[i].request.orgName = None
          /\ calls[i].clientCalls[1].method = "getEnterpriseMetrics"
          /\ calls[i].requested

-----------------------------------------------------------------------------
(* What the claims about the validator speak of.                           *)

ZPrimitives == {"string", "number", "boolean"}

\* Some value inside v sits where schema s expects another type.
RECURSIVE HoldsWrongType(_, _)
HoldsWrongType(s, v) ==
    /\ v # Undefined
    /\ CASE s.k \in ZPrimitives -> ZParsedType(v) # s.k
         [] s.k \in {"default", "optional"} -> HoldsWrongType(s.inner, v)
         [] s.k = "nullish" -> v # JNull /\ HoldsWrongType(s.inner, v)
         [] s.k = "array" ->
              \/ v.t # "arr"
              \/ \E i \in 1..Len(v.a) : HoldsWrongType(s.el, v.a[i])
         [] s.k = "object" ->
              \/ v.t # "obj"
              \/ \E i \in 1..Len(s.shape) :
                    HoldsWrongType(s.shape[i][2], Get(v, s.shape[i][1]))

\* The required keys (neither optional nor defaulted) that an object inside v lacks.
RECURSIVE MissingRequired(_, _)
MissingRequired(s, v) ==
    IF v = Undefined THEN {}
    ELSE CASE s.k \in ZPrimitives -> {}
           [] s.k \in {"default", "optional", "nullish"} -> MissingRequired(s.inner, v)
           [] s.k = "array" ->
                IF v.t # "arr" THEN {}
                ELSE UNION {MissingRequired(s.el, v.a[i]) : i \in 1..Len(v.a)}
           [] s.k = "object" ->
                IF v.t # "obj" THEN {}
                ELSE UNION {IF Get(v, s.shape[i][1]) = Undefined
                            THEN IF s.shape[i][2].k \in ZPrimitives
                                 THEN {s.shape[i][1]}
                                 ELSE {}
                            ELSE MissingRequired(s.shape[i][2], Get(v, s.shape[i][1])) :
                            i \in 1..Len(s.shape)}

\* v without the fields its schema does not name, at every depth.
RECURSIVE StripUnknown(_, _)
StripUnknown(s, v) ==
    CASE s.k \in {"default", "optional", "nullish"} -> StripUnknown(s.inner, v)
      [] s.k = "array" /\ v.t = "arr" ->
           JArr([i \in 1..Len(v.a) |-> StripUnknown(s.el, v.a[i])])
      [] s.k = "object" /\ v.t = "obj" ->
           LET known == {i \in 1..Len(s.shape) : s.shape[i][1] \in DOMAIN v.f}
               at(key) == CHOOSE i \in known : s.shape[i][1] = key
           IN  JObj([key \in {s.shape[i][1] : i \in known} |->
                       StripUnknown(s.shape[at(key)][2], v.f[key])])
      [] OTHER -> v

\* The fields of v its schema does not name, each with the path to it.
RECURSIVE Unknowns(_, _, _)
Unknowns(s, v, path) ==
    CASE s.k \in {"default", "optional", "nullish"} -> Unknowns(s.inner, v, path)
      [] s.k = "array" /\ v.t = "arr" ->
           UNION {Unknowns(s.el, v.a[i], Append(path, ToString(i - 1))) :
                    i \in 1..Len(v.a)}
      [] s.k = "object" /\ v.t = "obj" ->
           LET keys == {s.shape[i][1] : i \in 1..Len(s.shape)}
           IN  {<<Append(path, key), v.f[key]>> : key \in DOMAIN v.f \ keys}
               \cup UNION {Unknowns(s.shape[i][2], Get(v, s.shape[i][1]),
                                    Append(path, s.shape[i][1])) :
                             i \in 1..Len(s.shape)}
      [] OTHER -> {}

\* Every field of kind `kinds` that is absent in `in` holds `zero(schema)` in out.
RECURSIVE AbsentFilled(_, _, _, _)
AbsentFilled(s, in, out, withOptionalNumbers) ==
    CASE s.k \in {"default", "optional", "nullish"} ->
           AbsentFilled(s.inner, in, out, withOptionalNumbers)
      [] s.k = "array" /\ in.t = "arr" /\ out.t = "arr" ->
           \A i \in 1..Len(in.a) :
              AbsentFilled(s.el, in.a[i], out.a[i], withOptionalNumbers)
      [] s.k = "object" /\ in.t = "obj" /\ out.t = "obj" ->
           \A i \in 1..Len(s.shape) :
              LET key == s.shape[i][1]
                  sub == s.shape[i][2]
              IN  IF Get(in, key) = Undefined
                  THEN /\ sub.k = "default" /\ sub.inner = ZNumber
                            => Get(out, key) = JNum(0)
                       /\ sub.k = "default" /\ sub.inner = ZBoolean
                            => Get(out, key) = JBool(FALSE)
                       /\ withOptionalNumbers /\ sub.k = "optional" /\ sub.inner = ZNumber
                            => Get(out, key) = JNum(0)
                  ELSE AbsentFilled(sub, Get(in, key), Get(out, key), withOptionalNumbers)
      [] OTHER -> TRUE

ApiSchema == CopilotMetricsApiResponseSchema

ElementNotObject(v) == v.t = "arr" /\ \E i \in 1..Len(v.a) : v.a[i].t # "obj"

ElementLacksDate(v) ==
    v.t = "arr" /\ \E i \in 1..Len(v.a) :
                     v.a[i].t = "obj" /\ Get(v.a[i], "date") = Undefined

\* The failure cases C8 lists.
ListedFailure(v) ==
    \/ v.t # "arr"
    \/ ElementLacksDate(v)
    \/ ElementNotObject(v)
    \/ HoldsWrongType(ApiSchema, v)

\* What a validation result must look like, whichever way it went.
WellFormedResult(r, v) ==
    IF r.success
    THEN /\ r.data.t = "arr"
         /\ Len(r.data.a) = Len(v.a)
         /\ safeParse(ApiSchema, r.data) = [success |-> TRUE, data |-> r.data]
    ELSE Len(r.errors.errors) > 0

\* C8 as stated: validateMetricsResponse never throws, fails exactly when the
\* value is not an array, an element lacks date, an element is not an object
\* or a typed field holds the wrong primitive type, and succeeds with the
\* validated sequence in all other cases.
C8_AsStated ==
    result.some =>
        /\ result.v.success = ~ListedFailure(input)
        /\ WellFormedResult(result.v, input)

\* C8 (amended): validateMetricsResponse never throws and fails, with errors,
\* exactly when the value is not an array, an element is not an object, an
\* element lacks date, a nested entry (language, editor, model, repository)
\* lacks its required name, or a typed field holds the wrong primitive type;
\* in all other cases it succeeds with the validated sequence.
C8_FailsExactlyOnShapeErrors ==
    result.some =>
        /\ result.v.success =
              ~(ListedFailure(input) \/ "name" \in MissingRequired(ApiSchema, input))
        /\ WellFormedResult(result.v, input)

C8_Witness ==
    /\ result.some
    /\ ~result.v.success
    /\ ~ListedFailure(input)
    /\ "name" \in MissingRequired(ApiSchema, input)

ZeroDayCount(days) == Cardinality({i \in 1..Len(days) : IsZeroDay(days[i])})

\* C9: for a structurally valid array of n days of which z have
\* total_active_users = 0 (after defaults), validation succeeds, the data is
\* the parsed sequence untouched by the warning checks, and the warnings are
\* exactly the empty-array warning when n = 0, the warning naming z when
\* 0 < z < n, and none when z = 0 or z = n > 0.
C9_WarningsExact ==
    (result.some /\ ~ListedFailure(input)
                 /\ "name" \notin MissingRequired(ApiSchema, input)) =>
        LET n == Len(input.a)
            parsed == safeParse(ApiSchema, input).data
            z == ZeroDayCount(parsed.a)
        IN  /\ result.v.success
            /\ result.v.data = parsed
            /\ Len(result.v.data.a) = n
            /\ result.v.warnings =
                  IF n = 0
                  THEN Some(<<"API returned empty metrics array - date range may have no data">>)
                  ELSE IF 0 < z /\ z < n
                       THEN Some(<<ToString(z) \o " day(s) have zero active users">>)
                       ELSE None

C9_Witness ==
    /\ result.some
    /\ result.v.success
    /\ Len(input.a) = 2
    /\ ZeroDayCount(result.v.data.a) = 1
    /\ result.v.warnings = Some(<<"1 day(s) have zero active users">>)

C23_SingleDayContract ==
    calls # <<>> =>
        LET single == calls[1]
            sequence == validateMetricsResponse(JArr(<<input>>))
        IN  /\ single.success \in BOOLEAN
            /\ sequence.success \in BOOLEAN
            /\ single.success = sequence.success
            /\ single.success => <<single.data>> = sequence.data.a
            /\ ~single.success => Len(single.errors.errors) > 0

C23_Witness ==
    /\ calls # <<>>
    /\ calls[1].success
    /\ calls[1].data # input
    /\ Get(calls[1].data, "total_engaged_users") = JNum(0)

-----------------------------------------------------------------------------
(* The aggregation on its own: one validated sequence of days, built into  *)
(* a live report, and built again; or the mock report of a request.        *)

\* The longest sequence of days aggregated.
MaxInputDays == 3

\* The array buildLanguageBreakdown was handed, after it ran as if the map
\* held the input's own entries (languageMap.set(lang.name, lang)): the
\* first entry of each name carries the accumulated totals.
buildLanguageBreakdownWritesShared(metrics) ==
    LET all == Flatten([i \in 1..Len(metrics) |-> Languages(metrics[i])])
        map == LanguageMap(all)
        before(i) == Flatten([d \in 1..(i - 1) |-> Languages(metrics[d])])
        first(i, j) ==
            LET langs == Languages(metrics[i])
                earlier == before(i) \o SubSeq(langs, 1, j - 1)
            IN  \A k \in 1..Len(earlier) : Get(earlier[k], "name") # Get(langs[j], "name")
        written(i) ==
            LET langs == Languages(metrics[i])
            IN  [j \in 1..Len(langs) |->
                    IF first(i, j) THEN MapGet(map, Get(langs[j], "name").s) ELSE langs[j]]
    IN  [i \in 1..Len(metrics) |->
            IF Languages(metrics[i]) = <<>> THEN metrics[i]
            ELSE With(metrics[i], "copilot_ide_code_completions",
                      With(Get(metrics[i], "copilot_ide_code_completions"),
                           "languages", JArr(written(i))))]

\* The array buildLanguageBreakdown was handed, after it ran: the map holds
\* copies ({ ...lang }) and every write goes to a copy.
buildLanguageBreakdownWrites(metrics) == metrics

Lang(name, engaged, suggestions, acceptances) ==
    JObj([name |-> JStr(name),
          total_engaged_users |-> JNum(engaged),
          total_code_suggestions |-> JNum(suggestions),
          total_code_acceptances |-> JNum(acceptances),
          total_code_lines_suggested |-> JNum(3 * suggestions),
          total_code_lines_accepted |-> JNum(2 * acceptances)])

Editor(name, engaged) ==
    JObj([name |-> JStr(name), total_engaged_users |-> JNum(engaged)])

ChatModel(chats, insertions, copies) ==
    JObj([name |-> JStr("default"),
          total_chats |-> JNum(chats),
          total_chat_insertion_events |-> JNum(insertions),
          total_chat_copy_events |-> JNum(copies)])

PullRequestModel(summaries) ==
    JObj([name |-> JStr("default"), total_pr_summaries_created |-> JNum(summaries)])

\* What a day holds besides its date (completeValidResponse,
\* minimalValidResponse, mixedActivityResponse, cut down).
DayBodies ==
    {\* no activity, no section
     JObj([total_active_users |-> JNum(0)]),
     \* every section; two languages with equal suggestions; ten chats in
     \* each chat section
     JObj([total_active_users |-> JNum(120),
           total_engaged_users |-> JNum(80),
           copilot_ide_code_completions |->
               JObj([languages |-> JArr(<<Lang("TypeScript", 50, 300, 100),
                                          Lang("Python", 40, 300, 0)>>),
                     editors |-> JArr(<<Editor("VS Code", 90), Editor("JetBrains", 20)>>)]),
           copilot_ide_chat |->
               JObj([editors |-> JArr(<<With(Editor("VS Code", 70), "models",
                                             JArr(<<ChatModel(10, 4, 2)>>))>>)]),
           copilot_dotcom_chat |-> JObj([models |-> JArr(<<ChatModel(10, 1, 1)>>)]),
           copilot_dotcom_pull_requests |->
               JObj([repositories |->
                        JArr(<<JObj([name |-> JStr("main-app"),
                                     models |-> JArr(<<PullRequestModel(28)>>)]),
                               JObj([name |-> JStr("api"),
                                     models |-> JArr(<<PullRequestModel(15)>>)])>>)])]),
     \* the same peak again; other languages first; an editor tying with
     \* VS Code; a chat editor without models; a repository without models
     JObj([total_active_users |-> JNum(120),
           total_engaged_users |-> JNum(110),
           copilot_ide_code_completions |->
               JObj([languages |-> JArr(<<Lang("Python", 60, 7, 3),
                                          JObj([name |-> JStr("Go")]),
                                          Lang("TypeScript", 30, 7, 0)>>),
                     editors |-> JArr(<<Editor("JetBrains", 90)>>)]),
           copilot_ide_chat |->
               JObj([editors |-> JArr(<<Editor("Neovim", 95),
                                        With(Editor("JetBrains", 25), "models",
                                             JArr(<<ChatModel(5, 0, 0), ChatModel(2, 1, 0)>>))>>)]),
           copilot_dotcom_pull_requests |->
               JObj([repositories |->
                        JArr(<<JObj([name |-> JStr("main-app"),
                                     models |-> JArr(<<PullRequestModel(3),
                                                       PullRequestModel(4)>>)]),
                               JObj([name |-> JStr("docs")])>>)])]),
     \* sections without their lists; dotcom chat only
     JObj([total_active_users |-> JNum(100),
           total_engaged_users |-> JNum(120),
           copilot_ide_code_completions |-> JObj([total_engaged_users |-> JNum(5)]),
           copilot_ide_chat |-> JObj([total_engaged_users |-> JNum(5)]),
           copilot_dotcom_chat |-> JObj([models |-> JArr(<<ChatModel(10, 2, 3)>>)])]),
     \* one language, a rate that rounds up (2/3)
     JObj([total_active_users |-> JNum(55),
           total_engaged_users |-> JNum(50),
           copilot_ide_code_completions |->
               JObj([languages |-> JArr(<<Lang("TypeScript", 60, 3, 2)>>),
                     editors |-> JArr(<<Editor("Neovim", 10)>>)])])}

\* Sequences of days, the i-th dated with the i-th calendar day.
RECURSIVE DaySeqs(_)
DaySeqs(n) ==
    IF n = 0 THEN {<<>>}
    ELSE LET shorter == DaySeqs(n - 1)
         IN  shorter \cup {Append(q, With(b, "date", JStr(CalendarDays[n]))) :
                              q \in {p \in shorter : Len(p) = n - 1}, b \in DayBodies}

\* What validateResponse hands on: the validated sequences.
MetricsInputs == {validateMetricsResponse(JArr(days)).data : days \in DaySeqs(MaxInputDays)}

AggregatorRequest == Request("acme", None, "2026-03-07", "2026-03-08")

MockRequests ==
    {Request("acme", None, "2026-03-07", "2026-03-08"),
     Request("acme", Some("eng"), "2026-03-08", "2026-03-10"),
     Request("acme", None, "2026-03-09", "2026-03-09")}

InitAggregator ==
    /\ input \in MetricsInputs
    /\ result = None
    /\ cache = MapNew
    /\ now = 0
    /\ calls = <<>>
    /\ cleared = None

\* Step 2 of generateReport on the metrics.
Aggregate ==
    /\ result = None
    /\ result' = Some(liveReport(AggregatorRequest, input.a, now))
    /\ input' = JArr(buildLanguageBreakdownWrites(input.a))
    /\ UNCHANGED <<cache, now, calls, cleared>>

\* Step 2 again, later, on the same array (a cache hit hands out the very
\* array the first report was built from); calls keeps the first report.
AggregateAgain ==
    /\ result # None
    /\ result.v.dataSource = "live"
    /\ calls = <<>>
    /\ calls' = <<result.v>>
    /\ now' = now + 1
    /\ result' = Some(liveReport(AggregatorRequest, input.a, now + 1))
    /\ input' = JArr(buildLanguageBreakdownWrites(input.a))
    /\ UNCHANGED <<cache, cleared>>

\* The catch block of generateReport: the mock report of a request, in a
\* process running in zone.
Mock(request, tape, zone) ==
    /\ result = None
    /\ \E returned \in {generateMockReport(request, Some("fetch failed"), tape, zone, now)} :
          /\ returned.status = "fulfilled"
          /\ result' = Some(returned.value)
    /\ UNCHANGED <<input, cache, now, calls, cleared>>

NextAggregator ==
    \/ Aggregate
    \/ AggregateAgain
    \/ \E request \in MockRequests, tape \in RandomTapes, zone \in Zones :
          Mock(request, tape, zone)

SpecAggregator == InitAggregator /\ [][NextAggregator]_vars

-----------------------------------------------------------------------------
(* What the claims about the aggregation speak of.                         *)

\* A live report has been built from the input.
Built == result # None /\ result.v.dataSource = "live"

\* r, in hundredths, is round(100 * a / s, 2) (halves up) if s > 0, else 0.
IsRate(r, a, s) ==
    IF s > 0
    THEN /\ 2 * r * s <= 20000 * a + s
         /\ 20000 * a + s < 2 * (r + 1) * s
    ELSE r = 0

\* C11: every rate of a live report is round(100 * acceptances /
\* suggestions, 2) over its own scope (the summary, a day, a language) when
\* that scope's suggestions are positive and exactly 0 when they are 0.
C11_RatesZeroSafe ==
    Built =>
        /\ IsRate(result.v.summary.acceptanceRate,
                  result.v.summary.totalCodeAcceptances,
                  result.v.summary.totalCodeSuggestions)
        /\ \A i \in 1..Len(result.v.dailyMetrics) :
              IsRate(result.v.dailyMetrics[i].acceptanceRate,
                     result.v.dailyMetrics[i].codeAcceptances,
                     result.v.dailyMetrics[i].codeSuggestions)
        /\ \A j \in 1..Len(result.v.languageBreakdown) :
              IsRate(result.v.languageBreakdown[j].acceptanceRate,
                     result.v.languageBreakdown[j].acceptances,
                     result.v.languageBreakdown[j].suggestions)

C11_Witness ==
    /\ Built
    /\ result.v.summary.totalCodeSuggestions > 0
    /\ (10000 * result.v.summary.totalCodeAcceptances)
          % result.v.summary.totalCodeSuggestions # 0
    /\ \E i \in 1..Len(result.v.dailyMetrics) :
          /\ result.v.dailyMetrics[i].codeSuggestions = 0
          /\ result.v.dailyMetrics[i].acceptanceRate = 0
    /\ \E i \in 1..Len(result.v.dailyMetrics) :
          /\ result.v.dailyMetrics[i].codeSuggestions > 0
          /\ (10000 * result.v.dailyMetrics[i].codeAcceptances)
                % result.v.dailyMetrics[i].codeSuggestions # 0
    /\ \E j \in 1..Len(result.v.languageBreakdown) :
          /\ result.v.languageBreakdown[j].suggestions = 0
          /\ result.v.languageBreakdown[j].acceptanceRate = 0
    /\ \E j \in 1..Len(result.v.languageBreakdown) :
          /\ result.v.languageBreakdown[j].suggestions > 0
          /\ (10000 * result.v.languageBreakdown[j].acceptances)
                % result.v.languageBreakdown[j].suggestions # 0

\* C12: dailyMetrics has one entry per input day, in input order and with
\* that day's date; metadata.totalDays is the input length, not the length
\* of the requested range; each of the three trend series has one point per
\* dailyMetrics entry, with its date and its activeUsers / acceptanceRate /
\* codeSuggestions.
C12_OneEntryPerDay ==
    Built =>
        LET daily == result.v.dailyMetrics
            trends == result.v.trends
            Series(trend, field) ==
                /\ Len(trend) = Len(daily)
                /\ \A i \in 1..Len(daily) :
                      /\ DOMAIN trend[i] = {"date", "value"}
                      /\ trend[i].date = daily[i].date
                      /\ trend[i].value = daily[i][field]
        IN  /\ Len(daily) = Len(input.a)
            /\ \A i \in 1..Len(input.a) :
                  /\ daily[i].date = Get(input.a[i], "date").s
                  /\ daily[i].activeUsers = Get(input.a[i], "total_active_users").n
            /\ result.v.metadata.totalDays = Len(input.a)
            /\ DOMAIN trends = {"activeUsersTrend", "acceptanceRateTrend",
                                "suggestionsVolumeTrend"}
            /\ Series(trends.activeUsersTrend, "activeUsers")
            /\ Series(trends.acceptanceRateTrend, "acceptanceRate")
            /\ Series(trends.suggestionsVolumeTrend, "codeSuggestions")

C12_Witness ==
    /\ Built
    /\ Len(input.a) = 3
    /\ result.v.metadata.dateRange = [from |-> "2026-03-07", to |-> "2026-03-08"]
    /\ result.v.metadata.totalDays = 3
    /\ Get(input.a[1], "total_active_users").n = 0
    /\ Len(result.v.trends.acceptanceRateTrend) = 3
    /\ result.v.trends.acceptanceRateTrend[2].value = 6667
    /\ result.v.trends.suggestionsVolumeTrend[3].value = 600

\* C13: when the client call resolves with the empty sequence, generateReport
\* returns a live report whose summary totals and rates are all 0, whose
\* peakActiveUsers is 0 with peakActiveUsersDate "", and whose dailyMetrics,
\* languageBreakdown, editorBreakdown and three trend series are empty.
C13_EmptySequence ==
    \A i \in Returned :
        calls[i].settled.v = Fulfilled(JArr(<<>>)) =>
            /\ calls[i].returned.v.status = "fulfilled"
            /\ LET report == calls[i].returned.v.value
               IN  /\ report.dataSource = "live"
                   /\ "peakActiveUsers" \in DOMAIN report.summary
                   /\ "acceptanceRate" \in DOMAIN report.summary
                   /\ "avgDailyActiveUsers" \in DOMAIN report.summary
                   /\ \A k \in DOMAIN report.summary \ {"peakActiveUsersDate"} :
                         report.summary[k] = 0
                   /\ report.summary.peakActiveUsersDate = ""
                   /\ report.dailyMetrics = <<>>
                   /\ report.languageBreakdown = <<>>
                   /\ report.editorBreakdown = <<>>
                   /\ \A k \in DOMAIN report.trends : report.trends[k] = <<>>
                   /\ Cardinality(DOMAIN report.trends) = 3

C13_Witness ==
    \E i \in Returned :
        /\ calls[i].requested
        /\ calls[i].settled.v = Fulfilled(JArr(<<>>))
        /\ calls[i].returned.v.status = "fulfilled"
        /\ calls[i].returned.v.value.summary.peakActiveUsersDate = ""

\* The names of the sequence of entries xs.
Names(xs) == [i \in 1..Len(xs) |-> Get(xs[i], "name").s]

\* The language names of the input, in the order the days list them.
LanguagesSeen ==
    Flatten([d \in 1..Len(input.a) |->
        Names(Elems(Get(Get(input.a[d], "copilot_ide_code_completions"), "languages")))])

\* The editor names of the input, in the order the days list them: a day's
\* code-completion editors, then its IDE-chat editors.
EditorsSeen ==
    Flatten([d \in 1..Len(input.a) |->
        Names(Elems(Get(Get(input.a[d], "copilot_ide_code_completions"), "editors")))
        \o Names(Elems(Get(Get(input.a[d], "copilot_ide_chat"), "editors")))])

\* Where x is first seen in the sequence seen.
FirstSeen(seen, x) ==
    CHOOSE k \in 1..Len(seen) : seen[k] = x /\ \A l \in 1..(k - 1) : seen[l] # x

\* rows is ordered non-increasing by field, rows of equal value in the order
\* their names (under key) are first seen in seen.
OrderedBy(rows, field, key, seen) ==
    \A i, j \in 1..Len(rows) :
        i < j =>
            /\ rows[i][field] >= rows[j][field]
            /\ rows[i][field] = rows[j][field] =>
                  FirstSeen(seen, rows[i][key]) < FirstSeen(seen, rows[j][key])

\* C14: in every report, live or mock, languageBreakdown is ordered
\* non-increasing by suggestions and editorBreakdown non-increasing by
\* engagedUsers, entries of equal value in the order their names were first
\* seen (in the input of a live report, in the roster of a mock report).
C14_BreakdownsSorted ==
    result # None =>
        IF result.v.dataSource = "live"
        THEN /\ OrderedBy(result.v.languageBreakdown, "suggestions", "language",
                          LanguagesSeen)
             /\ OrderedBy(result.v.editorBreakdown, "engagedUsers", "editor",
                          EditorsSeen)
        ELSE /\ Len(result.v.languageBreakdown) = Len(MockLanguages)
             /\ OrderedBy(result.v.languageBreakdown, "suggestions", "language",
                          [k \in 1..Len(MockLanguages) |-> MockLanguages[k][1]])
             /\ Len(result.v.editorBreakdown) = Len(MockEditors)
             /\ OrderedBy(result.v.editorBreakdown, "engagedUsers", "editor",
                          [k \in 1..Len(MockEditors) |-> MockEditors[k][1]])

\* A live report with two languages of equal suggestions and two editors of
\* equal engagedUsers, the later of each pair ahead in the alphabet's order.
C14_Witness ==
    /\ Built
    /\ \E i \in 1..Len(result.v.languageBreakdown) - 1 :
          /\ result.v.languageBreakdown[i].language = "TypeScript"
          /\ result.v.languageBreakdown[i + 1].language = "Python"
          /\ result.v.languageBreakdown[i].suggestions
                = result.v.languageBreakdown[i + 1].suggestions
    /\ \E i \in 1..Len(result.v.editorBreakdown) - 1 :
          /\ result.v.editorBreakdown[i].editor = "VS Code"
          /\ result.v.editorBreakdown[i + 1].editor = "JetBrains"
          /\ result.v.editorBreakdown[i].engagedUsers
                = result.v.editorBreakdown[i + 1].engagedUsers
    /\ result.v.editorBreakdown[1].editor = "Neovim"

\* A report without the time it was generated at.
Undated(report) == [report EXCEPT !.metadata.generatedAt = 0]

Largest(field) ==
    CHOOSE m \in {Get(input.a[d], field).n : d \in 1..Len(input.a)} :
        \A d \in 1..Len(input.a) : Get(input.a[d], field).n <= m

\* C16 as stated: for a non-empty input, peakActiveUsers and totalActiveUsers
\* are the largest single-day total_active_users, totalEngagedUsers the
\* largest total_engaged_users, and peakActiveUsersDate the date of the first
\* day that attains the largest total_active_users; only for the empty
\* input is the peak 0 with date "".
C16_AsStated ==
    Built =>
        IF input.a # <<>>
        THEN /\ result.v.summary.peakActiveUsers = Largest("total_active_users")
             /\ result.v.summary.totalActiveUsers = Largest("total_active_users")
             /\ result.v.summary.totalEngagedUsers = Largest("total_engaged_users")
             /\ \E d \in 1..Len(input.a) :
                   /\ Get(input.a[d], "total_active_users").n = Largest("total_active_users")
                   /\ \A e \in 1..(d - 1) :
                         Get(input.a[e], "total_active_users").n < Largest("total_active_users")
                   /\ result.v.summary.peakActiveUsersDate = Get(input.a[d], "date").s
             /\ ~(result.v.summary.peakActiveUsers = 0
                  /\ result.v.summary.peakActiveUsersDate = "")
        ELSE /\ result.v.summary.peakActiveUsers = 0
             /\ result.v.summary.peakActiveUsersDate = ""

\* xs[1] + ... + xs[n].
RECURSIVE AddUp(_, _)
AddUp(xs, n) == IF n = 0 THEN 0 ELSE xs[n] + AddUp(xs, n - 1)

\* C17: summary.avgDailyActiveUsers is the arithmetic mean of
\* total_active_users over all input days, days without activity counted in
\* the divisor, rounded to two decimals (held in hundredths), and 0 for the
\* empty input; days [0, 0, 120] give 40.
C17_MeanOverAllDays ==
    Built =>
        LET n == Len(input.a)
            sum == AddUp([d \in 1..n |-> Get(input.a[d], "total_active_users").n], n)
            avg == result.v.summary.avgDailyActiveUsers
        IN  /\ n = 0 => avg = 0
            /\ n > 0 =>
                  /\ 2 * avg * n <= 200 * sum + n
                  /\ 200 * sum + n < 2 * (avg + 1) * n
            /\ [d \in 1..n |-> Get(input.a[d], "total_active_users").n] = <<0, 0, 120>>
                  => avg = 4000

C17_Witness ==
    /\ Built
    /\ [d \in 1..Len(input.a) |-> Get(input.a[d], "total_active_users").n] = <<0, 0, 120>>
    /\ result.v.summary.avgDailyActiveUsers = 4000

\* The count x reports under k; 0 if it reports none.
Count(x, k) == IF x.t = "obj" /\ k \in DOMAIN x.f /\ x.f[k].t = "num" THEN x.f[k].n ELSE 0

\* The entries x lists under k; none if x is absent or lists none.
Listed(x, k) == IF x.t = "obj" /\ k \in DOMAIN x.f /\ x.f[k].t = "arr" THEN x.f[k].a ELSE <<>>

\* The section k of a day; Undefined if the day has none.
Section(day, k) == IF k \in DOMAIN day.f THEN day.f[k] ELSE Undefined

\* The sum of the count k over the entries xs.
CountAll(xs, k) == AddUp([i \in 1..Len(xs) |-> Count(xs[i], k)], Len(xs))

\* The sum of the count k over the entries each of the groups lists under list.
CountNested(groups, list, k) ==
    AddUp([g \in 1..Len(groups) |-> CountAll(Listed(groups[g], list), k)], Len(groups))

DayLanguages(day, k) ==
    CountAll(Listed(Section(day, "copilot_ide_code_completions"), "languages"), k)

DayChats(day, k) ==
    CountNested(Listed(Section(day, "copilot_ide_chat"), "editors"), "models", k)
    + CountAll(Listed(Section(day, "copilot_dotcom_chat"), "models"), k)

DayPullRequests(day, k) ==
    CountNested(Listed(Section(day, "copilot_dotcom_pull_requests"), "repositories"),
                "models", k)

\* The sum over the days of the input of what(day, k).
OverDays(what(_, _), k) ==
    AddUp([d \in 1..Len(input.a) |-> what(input.a[d], k)], Len(input.a))

\* C18: the summary totals are complete sums over the nested input, an
\* absent section counting 0: the code totals over all days and languages,
\* totalPrSummaries over all days, repositories and models, and the three
\* chat totals over the models of both the IDE-chat editors and dotcom chat;
\* a day's chatSessions and chatInsertions sum both chat sections too.
C18_TotalsAreCompleteSums ==
    Built =>
        LET summary == result.v.summary
        IN  /\ summary.totalCodeSuggestions = OverDays(DayLanguages, "total_code_suggestions")
            /\ summary.totalCodeAcceptances = OverDays(DayLanguages, "total_code_acceptances")
            /\ summary.totalLinesOfCodeSuggested
                  = OverDays(DayLanguages, "total_code_lines_suggested")
            /\ summary.totalLinesOfCodeAccepted
                  = OverDays(DayLanguages, "total_code_lines_accepted")
            /\ summary.totalPrSummaries
                  = OverDays(DayPullRequests, "total_pr_summaries_created")
            /\ summary.totalChats = OverDays(DayChats, "total_chats")
            /\ summary.totalChatInsertions = OverDays(DayChats, "total_chat_insertion_events")
            /\ summary.totalChatCopyEvents = OverDays(DayChats, "total_chat_copy_events")
            /\ \A d \in 1..Len(input.a) :
                  /\ result.v.dailyMetrics[d].chatSessions
                        = DayChats(input.a[d], "total_chats")
                  /\ result.v.dailyMetrics[d].chatInsertions
                        = DayChats(input.a[d], "total_chat_insertion_events")
                  /\ result.v.dailyMetrics[d].codeSuggestions
                        = DayLanguages(input.a[d], "total_code_suggestions")
                  /\ result.v.dailyMetrics[d].prSummaries
                        = DayPullRequests(input.a[d], "total_pr_summaries_created")

\* Ten chats in each chat section on one day, a day without any section, and
\* a day whose sections list nothing.
C18_Witness ==
    /\ Built
    /\ Len(input.a) = 3
    /\ result.v.dailyMetrics[1].chatSessions = 20
    /\ DOMAIN input.a[2].f = {"date", "total_active_users", "total_engaged_users"}
    /\ "copilot_ide_chat" \in DOMAIN input.a[3].f
    /\ Listed(Section(input.a[3], "copilot_ide_chat"), "editors") = <<>>
    /\ result.v.summary.totalChats = 30
    /\ result.v.summary.totalChatCopyEvents = 6
    /\ result.v.summary.totalPrSummaries = 43

\* Every language entry of the input, over all days.
LanguageEntries ==
    Flatten([d \in 1..Len(input.a) |->
        Listed(Section(input.a[d], "copilot_ide_code_completions"), "languages")])

\* The largest of the count k over the entries xs (which are not empty).
LargestCount(xs, k) ==
    CHOOSE m \in {Count(xs[i], k) : i \in 1..Len(xs)} :
        \A i \in 1..Len(xs) : Count(xs[i], k) <= m

\* C19: languageBreakdown has exactly one entry per distinct language name
\* of the input; its suggestions, acceptances, linesSuggested and
\* linesAccepted are the sums over all entries of that name on all days, and
\* its engagedUsers is the maximum, not the sum, of their total_engaged_users.
C19_LanguageBreakdown ==
    Built =>
        LET rows == result.v.languageBreakdown
            names == {Get(LanguageEntries[i], "name").s : i \in 1..Len(LanguageEntries)}
        IN  /\ {rows[j].language : j \in 1..Len(rows)} = names
            /\ Len(rows) = Cardinality(names)
            /\ \A j \in 1..Len(rows) :
                  LET own == SelectSeq(LanguageEntries,
                                       LAMBDA e : Get(e, "name").s = rows[j].language)
                  IN  /\ rows[j].suggestions = CountAll(own, "total_code_suggestions")
                      /\ rows[j].acceptances = CountAll(own, "total_code_acceptances")
                      /\ rows[j].linesSuggested = CountAll(own, "total_code_lines_suggested")
                      /\ rows[j].linesAccepted = CountAll(own, "total_code_lines_accepted")
                      /\ rows[j].engagedUsers = LargestCount(own, "total_engaged_users")

\* Python on two days (40 then 60 engaged users), TypeScript on three.
C19_Witness ==
    /\ Built
    /\ Len(LanguageEntries) = 6
    /\ Len(result.v.languageBreakdown) = 3
    /\ \E j \in 1..3 :
          /\ result.v.languageBreakdown[j].language = "Python"
          /\ result.v.languageBreakdown[j].engagedUsers = 60
          /\ result.v.languageBreakdown[j].suggestions = 307
          /\ result.v.languageBreakdown[j].linesAccepted = 6
    /\ \E j \in 1..3 :
          /\ result.v.languageBreakdown[j].language = "TypeScript"
          /\ result.v.languageBreakdown[j].engagedUsers = 60
          /\ result.v.languageBreakdown[j].suggestions = 310

\* Every editor entry of the code-completion sections, over all days.
CompletionEditorEntries ==
    Flatten([d \in 1..Len(input.a) |->
        Listed(Section(input.a[d], "copilot_ide_code_completions"), "editors")])

\* Every editor entry of the IDE-chat sections, over all days.
ChatEditorEntries ==
    Flatten([d \in 1..Len(input.a) |->
        Listed(Section(input.a[d], "copilot_ide_chat"), "editors")])

\* C20: editorBreakdown has exactly one entry per distinct editor name seen
\* in the code-completion editors or the IDE-chat editors of any day, both
\* sections feeding one bucket; its engagedUsers is the maximum
\* total_engaged_users over every entry of that name in both sections, and
\* its chatSessions the sum of total_chats over all models of its IDE-chat
\* entries (0 if it has none).
C20_EditorBreakdown ==
    Built =>
        LET rows == result.v.editorBreakdown
            both == CompletionEditorEntries \o ChatEditorEntries
            names == {Get(both[i], "name").s : i \in 1..Len(both)}
        IN  /\ {rows[j].editor : j \in 1..Len(rows)} = names
            /\ Len(rows) = Cardinality(names)
            /\ \A j \in 1..Len(rows) :
                  LET named(e) == Get(e, "name").s = rows[j].editor
                  IN  /\ rows[j].engagedUsers
                            = LargestCount(SelectSeq(both, named), "total_engaged_users")
                      /\ rows[j].chatSessions
                            = CountNested(SelectSeq(ChatEditorEntries, named),
                                          "models", "total_chats")

\* VS Code and JetBrains seen in both sections, JetBrains on two days, Neovim
\* in IDE chat without models and in code completions.
C20_Witness ==
    /\ Built
    /\ Len(CompletionEditorEntries) = 4
    /\ Len(ChatEditorEntries) = 3
    /\ result.v.editorBreakdown =
          <<[editor |-> "Neovim", engagedUsers |-> 95, chatSessions |-> 0],
            [editor |-> "VS Code", engagedUsers |-> 90, chatSessions |-> 10],
            [editor |-> "JetBrains", engagedUsers |-> 90, chatSessions |-> 7]>>


-----------------------------------------------------------------------------
(* What the claims about the mock report speak of.                         *)

\* A mock report has been generated.
Mocked == result # None /\ result.v.dataSource = "mock"

\* The calendar days from .. to, in order.
DaysOfRange(dateRange) ==
    LET first == CHOOSE i \in 1..Len(CalendarDays) : CalendarDays[i] = dateRange.from
        last == CHOOSE i \in 1..Len(CalendarDays) : CalendarDays[i] = dateRange.to
    IN  [k \in 1..(last - first + 1) |-> CalendarDays[first + k - 1]]

\* C21 as stated: a mock report has exactly one dailyMetrics entry per
\* calendar day of [from, to], both ends included, in increasing date order
\* with no day repeated or skipped, and metadata.totalDays is that count.
C21_AsStated ==
    Mocked =>
        LET days == DaysOfRange(result.v.metadata.dateRange)
        IN  /\ [k \in 1..Len(result.v.dailyMetrics) |-> result.v.dailyMetrics[k].date]
                 = days
            /\ result.v.metadata.totalDays = Len(days)


\* The values of one field over a sequence of records.
Column(rows, field) == [k \in 1..Len(rows) |-> rows[k][field]]

\* The sum of one field over a sequence of records.
Added(rows, field) == AddUp(Column(rows, field), Len(rows))

\* The summary sums of a report are the sums of its dailyMetrics fields.
SummarySumsAgree(report) ==
    /\ report.summary.totalCodeSuggestions = Added(report.dailyMetrics, "codeSuggestions")
    /\ report.summary.totalCodeAcceptances = Added(report.dailyMetrics, "codeAcceptances")
    /\ report.summary.totalLinesOfCodeSuggested
          = Added(report.dailyMetrics, "linesOfCodeSuggested")
    /\ report.summary.totalLinesOfCodeAccepted
          = Added(report.dailyMetrics, "linesOfCodeAccepted")
    /\ report.summary.totalChats = Added(report.dailyMetrics, "chatSessions")
    /\ report.summary.totalChatInsertions = Added(report.dailyMetrics, "chatInsertions")
    /\ report.summary.totalPrSummaries = Added(report.dailyMetrics, "prSummaries")

\* The maxima and the peak of a report are those of its dailyMetrics, the
\* peak date that of the first day attaining the maximum.
MaximaAgree(report) ==
    LET days == report.dailyMetrics
    IN  /\ \A k \in 1..Len(days) :
              /\ days[k].activeUsers <= report.summary.peakActiveUsers
              /\ days[k].engagedUsers <= report.summary.totalEngagedUsers
        /\ \E k \in 1..Len(days) : days[k].engagedUsers = report.summary.totalEngagedUsers
        /\ \E k \in 1..Len(days) :
              /\ days[k].activeUsers = report.summary.peakActiveUsers
              /\ \A j \in 1..(k - 1) : days[j].activeUsers < days[k].activeUsers
              /\ days[k].date = report.summary.peakActiveUsersDate
        /\ report.summary.totalActiveUsers = report.summary.peakActiveUsers

\* avgDailyActiveUsers (in hundredths) is the mean of activeUsers over the
\* days of the report, rounded to two decimals.
MeanAgrees(report) ==
    LET n == Len(report.dailyMetrics)
        sum == Added(report.dailyMetrics, "activeUsers")
        avg == report.summary.avgDailyActiveUsers
    IN  /\ 2 * avg * n <= 200 * sum + n
        /\ 200 * sum + n < 2 * (avg + 1) * n

\* The totals of the language breakdown are those of the summary.
BreakdownAgrees(report) ==
    /\ Added(report.languageBreakdown, "suggestions") = report.summary.totalCodeSuggestions
    /\ Added(report.languageBreakdown, "acceptances") = report.summary.totalCodeAcceptances

\* The trends are the dailyMetrics columns, date by date.
TrendsAgree(report) ==
    /\ report.trends.activeUsersTrend
          = [k \in 1..Len(report.dailyMetrics) |->
                [date |-> report.dailyMetrics[k].date,
                 value |-> report.dailyMetrics[k].activeUsers]]
    /\ report.trends.acceptanceRateTrend
          = [k \in 1..Len(report.dailyMetrics) |->
                [date |-> report.dailyMetrics[k].date,
                 value |-> report.dailyMetrics[k].acceptanceRate]]
    /\ report.trends.suggestionsVolumeTrend
          = [k \in 1..Len(report.dailyMetrics) |->
                [date |-> report.dailyMetrics[k].date,
                 value |-> report.dailyMetrics[k].codeSuggestions]]

\* C22 as stated: the derived fields of a mock report are what the live
\* aggregation formulas give on the report's own dailyMetrics: the summary
\* sums, the maxima and the first peak date, the mean rounded to two
\* decimals, the zero-safe acceptance rate, language breakdown totals that
\* agree with the daily sequence, and trends copied from dailyMetrics.
C22_AsStated ==
    Mocked =>
        /\ SummarySumsAgree(result.v)
        /\ MaximaAgree(result.v)
        /\ MeanAgrees(result.v)
        /\ IsRate(result.v.summary.acceptanceRate,
                  result.v.summary.totalCodeAcceptances,
                  result.v.summary.totalCodeSuggestions)
        /\ BreakdownAgrees(result.v)
        /\ TrendsAgree(result.v)


-----------------------------------------------------------------------------
(* What the claims about the client and its cache speak of.                *)

\* C24 as stated: a client without a token rejects every metrics call with
\* the 'GitHub token is required' error and makes no network request,
\* whatever the shared cache holds (an entry another client stored for the
\* same key included).
C24_AsStated ==
    [][(Begins /\ Token(Begun.client) = "") =>
          /\ ~Begun.requested
          /\ Begun.settled.some
          /\ Begun.settled.v.status = "rejected"
          /\ Begun.settled.v.reason.isError
          /\ Begun.settled.v.reason.message
                = "GitHub token is required. Set GITHUB_TOKEN environment variable or pass token to constructor."
      ]_vars


\* A call for key is suspended on its network request.
InFlight(key) ==
    \E i \in 1..Len(calls) :
        /\ calls[i].cacheKey = key
        /\ calls[i].requested
        /\ ~calls[i].settled.some

\* The store holds no entry for key that a read at the present time returns.
NoneFresh(key) == ~MapHas(cache, key) \/ now > MapGet(cache, key).expiresAt

\* C25: there is no single-flight guarantee: a call (of a client holding a
\* token) that begins while another call for the same key is suspended on its
\* network request, nothing fresh being stored for the key, misses the cache
\* too and issues its own upstream request, so the upstream requests for one
\* key within one TTL window are not bounded by 1.
C25_NoSingleFlight ==
    [][(/\ Begins
        /\ Token(Begun.client) # ""
        /\ InFlight(Begun.cacheKey)
        /\ NoneFresh(Begun.cacheKey)) =>
           /\ ~Begun.hit
           /\ Begun.requested
           /\ ~Begun.settled.some
      ]_vars

C25_Witness ==
    \E i, j \in 1..Len(calls) :
        /\ i < j
        /\ calls[i].cacheKey = calls[j].cacheKey
        /\ calls[i].requested /\ ~calls[i].settled.some
        /\ calls[j].requested /\ ~calls[j].settled.some
        /\ now < CACHE_TTL_MS


\* Call i, suspended on its fetch, completes in this step with validated
\* metrics, which the client writes to the cache.
Writes(i) ==
    /\ i \in 1..Len(calls)
    /\ Len(calls') = Len(calls)
    /\ ~calls[i].settled.some
    /\ calls'[i].settled.some
    /\ calls'[i].settled.v.status = "fulfilled"

\* C26: a cache write replaces any prior entry for its key and sets
\* expiresAt to the time of the write plus the TTL, leaving the other keys
\* alone, and entries change by a write only; so when overlapping fetches for
\* one key both complete, or a fetch completes after clearCache, the store
\* holds the data and expiry of the write that happened last.
C26_LastWriteWins ==
    [][/\ \A i \in 1..Len(calls) :
             Writes(i) =>
                LET key == calls[i].cacheKey
                IN  /\ Cardinality({k \in 1..Len(cache') : cache'[k].key = key}) = 1
                    /\ MapGet(cache', key)
                          = [data |-> calls'[i].settled.v.value,
                             timestamp |-> now,
                             expiresAt |-> now + CACHE_TTL_MS]
                    /\ {cache'[k] : k \in {j \in 1..Len(cache') : cache'[j].key # key}}
                          = {cache[k] : k \in {j \in 1..Len(cache) : cache[j].key # key}}
                    /\ cleared.some => Len(cache') = 1
       /\ (~\E i \in 1..Len(calls) : Writes(i)) =>
             {cache'[k] : k \in 1..Len(cache')} \subseteq {cache[k] : k \in 1..Len(cache)}
      ]_vars

C26_Witness ==
    \E i, j \in Returned :
        /\ i < j
        /\ calls[i].cacheKey = calls[j].cacheKey
        /\ calls[i].requested /\ calls[j].requested
        /\ ~calls[j].afterClear
        /\ calls[i].settled.v.status = "fulfilled"
        /\ calls[j].settled.v.status = "fulfilled"
        /\ calls[i].settled.v.value # calls[j].settled.v.value
        /\ calls[i].returned.v.value.metadata.generatedAt
              = calls[j].returned.v.value.metadata.generatedAt
        /\ MapHas(cache, calls[i].cacheKey)
        /\ MapGet(cache, calls[i].cacheKey).data = calls[i].settled.v.value


\* Call i fails in this step: its fetch, suspended so far, settles with a
\* network error, a non-2xx response or a response that does not validate.
FailsOnSettling(i) ==
    /\ i \in 1..Len(calls)
    /\ Len(calls') = Len(calls)
    /\ ~calls[i].settled.some
    /\ calls'[i].settled.some
    /\ calls'[i].settled.v.status = "rejected"

\* The call this step begins fails at once: no token.
FailsOnBeginning ==
    /\ Begins
    /\ Begun.settled.some
    /\ Begun.settled.v.status = "rejected"

\* The calls that fail in this step.
Failing ==
    {i \in 1..Len(calls') : FailsOnSettling(i) \/ (FailsOnBeginning /\ i = Len(calls'))}

\* The client call of a request identical to that of call i, made by the same
\* client right after this step.
NextIdentical(i) ==
    generateReportCall(calls'[i].request, cache', Token(calls'[i].client), now')[1]

\* The entries of a store.
Entries(store) == {store[k] : k \in 1..Len(store)}

\* C27 as stated: a failed live fetch (missing token, network error, non-2xx
\* response, validation failure) leaves the cache exactly as it was, and the
\* next identical request goes to the network again.
C27_AsStated ==
    [][\A i \in Failing :
          /\ cache' = cache
          /\ NextIdentical(i).requested
      ]_vars

\* C27 (amended): a failed live fetch is attempted once and answered with
\* the mock report at once; it writes nothing to the cache: a fetch that
\* fails on settling leaves the store as it is, a call that fails for want
\* of a token changes it at most by the eviction of the expired entry of its
\* key; only validated upstream data is ever stored. The next identical
\* request is answered from the cache only if another fetch has stored a
\* fresh entry for the key; otherwise it goes to the network if the client
\* holds a token and fails on the missing token again if not.
C27_FailureWritesNothing ==
    [][/\ \A i \in 1..Len(calls) :
             FailsOnSettling(i) =>
                /\ cache' = cache
                /\ calls[i].requested
                /\ calls'[i].returned.some
                /\ WellFormed(calls[i].request) =>
                      /\ calls'[i].returned.v.status = "fulfilled"
                      /\ calls'[i].returned.v.value.dataSource = "mock"
       /\ FailsOnBeginning =>
             /\ ~Begun.requested
             /\ ~MapHas(cache', Begun.cacheKey)
             /\ Entries(cache') = {e \in Entries(cache) : e.key # Begun.cacheKey}
             /\ \A e \in Entries(cache) :
                   e.key = Begun.cacheKey => now > e.value.expiresAt
       /\ \A e \in Entries(cache') :
             \E j \in 1..Len(calls') :
                /\ calls'[j].cacheKey = e.key
                /\ calls'[j].requested
                /\ calls'[j].settled = Some(Fulfilled(e.value.data))
       /\ \A i \in Failing :
             LET key == calls'[i].cacheKey
                 fresh == MapHas(cache', key) /\ now' <= MapGet(cache', key).expiresAt
             IN  /\ NextIdentical(i).hit = fresh
                 /\ NextIdentical(i).requested = (~fresh /\ Token(calls'[i].client) # "")
      ]_vars

C27_Witness ==
    \E i, j \in Returned :
        /\ i < j
        /\ calls[i].request = calls[j].request
        /\ calls[i].client = calls[j].client
        /\ calls[i].requested
        /\ calls[i].settled.v.status = "rejected"
        /\ calls[i].returned.v.status = "fulfilled"
        /\ calls[i].returned.v.value.dataSource = "mock"
        /\ calls[i].returned.v.value.metadata.generatedAt < now
        /\ calls[j].requested
        /\ calls[j].settled.v.status = "rejected"
        /\ calls[j].returned.v.status = "fulfilled"
        /\ calls[j].returned.v.value.metadata.generatedAt = now
        /\ cache = MapNew


\* C28 as stated: the cache key is injective over request tuples: two calls
\* that differ in scope type, scope id, from or to never share a cache key
\* (ids and dates that contain ':' included), and a call answered from the
\* cache gets data that was fetched for its own scope and date range.
C28_AsStated ==
    /\ \A i, j \in 1..Len(calls) :
          Tuple(calls[i]) # Tuple(calls[j]) => calls[i].cacheKey # calls[j].cacheKey
    /\ \A j \in 1..Len(calls) :
          calls[j].hit =>
             \E i \in 1..Len(calls) :
                /\ Tuple(calls[i]) = Tuple(calls[j])
                /\ calls[i].requested
                /\ calls[i].settled = calls[j].settled


\* C29: the sections of a live report agree: the summary totals of code
\* suggestions, acceptances, lines suggested and accepted, chats, chat
\* insertions and PR summaries are the sums of the dailyMetrics fields over
\* all days, and the suggestions and acceptances of languageBreakdown add up
\* to summary.totalCodeSuggestions and totalCodeAcceptances.
C29_SectionsAgree ==
    Built =>
        /\ SummarySumsAgree(result.v)
        /\ BreakdownAgrees(result.v)

C29_Witness ==
    /\ Built
    /\ Len(result.v.dailyMetrics) = 3
    /\ \A d \in 1..3 : result.v.dailyMetrics[d].codeSuggestions > 0
    /\ Len(result.v.languageBreakdown) = 3
    /\ result.v.summary.totalCodeAcceptances > 0
    /\ result.v.summary.totalChats > result.v.dailyMetrics[1].chatSessions
    /\ result.v.dailyMetrics[1].chatSessions > 0
    /\ result.v.summary.totalPrSummaries > result.v.dailyMetrics[1].prSummaries
    /\ result.v.dailyMetrics[1].prSummaries > 0


\* The range of a request yields no calendar day: to is earlier than from,
\* or a date does not parse.
NoCalendarDay(request) == ~WellFormed(request)

\* A number of a report is finite: the reports hold integers alone, so a
\* value is finite when it is one.
Finite(x) == x \in Int

\* C30 as stated: the mock fallback is total: when the fetch fails for a
\* request whose range yields no calendar day, generateReport still resolves,
\* with a mock report whose dailyMetrics and trend series are empty and
\* whose summary values are all finite.
C30_AsStated ==
    \A i \in Returned :
        (calls[i].settled.v.status = "rejected" /\ NoCalendarDay(calls[i].request)) =>
            /\ calls[i].returned.v.status = "fulfilled"
            /\ calls[i].returned.v.value.dataSource = "mock"
            /\ calls[i].returned.v.value.dailyMetrics = <<>>
            /\ calls[i].returned.v.value.trends
                  = [activeUsersTrend |-> <<>>, acceptanceRateTrend |-> <<>>,
                     suggestionsVolumeTrend |-> <<>>]
            /\ \A f \in DOMAIN calls[i].returned.v.value.summary \ {"peakActiveUsersDate"} :
                  Finite(calls[i].returned.v.value.summary[f])

====
